---- MODULE Spec2Model ----
(***************************************************************************)
(* A model of the lexical scanning core of claude-guardrails:              *)
(*   - the shared StringScanner of src/scanner.rs,                         *)
(*   - the private StringScanner of src/rules/sensitive_logging.rs and the *)
(*     helpers built on it (extract_paren_content, is_in_comment,          *)
(*     extract_code_portions),                                             *)
(*   - extract_brace_content of src/rules/test_assertion.rs,               *)
(*   - the line helpers of src/rules/mod.rs,                               *)
(*   - the sensitive-logging and test-assertion rules.                     *)
(* Offsets are 0-based as in the source; Byte(bytes, i) is bytes[i].       *)
(***************************************************************************)
EXTENDS Integers, Sequences, FiniteSets, TLC

VARIABLES
    text,       \* the byte sequence under analysis (content / bytes)
    start,      \* the offset a scanner or an extractor is started at
    scanner,    \* the shared StringScanner (scanner.rs)
    pscanner,   \* the private StringScanner (sensitive_logging.rs)
    paren,      \* extract_paren_content: its locals and its result
    brace,      \* extract_brace_content: its locals and its result
    lines,      \* find_non_comment_match / count_non_comment_matches results
    logrule,    \* the sensitive-logging checker: its locals
    testrule,   \* the test-assertion checker: its locals
    loop,       \* a scan loop run by itself: which one, and its steps so far
    main,       \* main(): configuration, path, rules, violations, exit code
    calls       \* invocations of one checker: the locals of each, the statics

vars == <<text, start, scanner, pscanner, paren, brace, lines, logrule, testrule, loop,
          main, calls>>

----------------------------------------------------------------------------
(* Bytes.  One-character strings stand for the ASCII bytes the scanners    *)
(* look at; LETTER, CALL and KEYWORD stand for bytes no scanner looks at.  *)

SQ == "'"
DQ == "\""
\* the backtick byte 0x60 (the character itself cannot be written in a TLA+ string)
BT == "bt"
BSL == "\\"
NL == "\n"
SLASH == "/"
STAR == "*"
DOLLAR == "$"
LBRACE == "{"
RBRACE == "}"
LPAREN == "("
RPAREN == ")"
SPACE == " "
LETTER == "x"
COMMA == ","

\* Option::None of bytes.get(i), of Option<&str> and of Option<u32>
None == "None"

\* bytes.get(i).copied()
Get(bytes, i) ==
    IF i >= 0 /\ i < Len(bytes) THEN bytes[i + 1] ELSE None

\* &content[from..to]
Slice(bytes, from, to) ==
    SubSeq(bytes, from + 1, to)

\* every sequence over alphabet of length at most n
SeqsUpTo(alphabet, n) ==
    UNION {[1..k -> alphabet] : k \in 0..n}

----------------------------------------------------------------------------
(* The shared StringScanner, src/scanner.rs                                *)

\* StringScanner::new
New(bytes, from) ==
    [pos |-> from,
     in_single_quote |-> FALSE,
     in_double_quote |-> FALSE,
     in_template |-> FALSE,
     in_block_comment |-> FALSE,
     in_line_comment |-> FALSE,
     template_interp_depth |-> <<>>]

\* in_non_code_context as the five flags alone, the depth stack forgotten
in_non_code_context_flags_only(s) ==
    \/ s.in_single_quote
    \/ s.in_double_quote
    \/ s.in_template
    \/ s.in_block_comment
    \/ s.in_line_comment

\* StringScanner::in_non_code_context
in_non_code_context(s) ==
    \/ s.in_single_quote
    \/ s.in_double_quote
    \/ s.in_template
    \/ s.in_block_comment
    \/ s.in_line_comment
    \/ s.template_interp_depth # <<>>

\* Vec::last_mut() += d on the depth stack
BumpTop(stack, d) ==
    [stack EXCEPT ![Len(stack)] = @ + d]

\* Vec::pop
Pop(stack) ==
    SubSeq(stack, 1, Len(stack) - 1)

\* the interpolation branch without its two early returns for an open
\* quoted string: every byte is matched as code
AdvanceInterpolationNoQuoteReturn(bytes, s) ==
    LET byte == bytes[s.pos + 1] IN
    IF byte = LBRACE
    THEN [s EXCEPT !.template_interp_depth = BumpTop(@, 1), !.pos = @ + 1]
    ELSE IF byte = RBRACE
    THEN IF s.template_interp_depth[Len(s.template_interp_depth)] - 1 = 0
         THEN [s EXCEPT !.template_interp_depth = Pop(@),
                        !.in_template = TRUE,
                        !.pos = @ + 1]
         ELSE [s EXCEPT !.template_interp_depth = BumpTop(@, -1), !.pos = @ + 1]
    ELSE IF byte = SQ
    THEN [s EXCEPT !.in_single_quote = ~@, !.pos = @ + 1]
    ELSE IF byte = DQ
    THEN [s EXCEPT !.in_double_quote = ~@, !.pos = @ + 1]
    ELSE IF byte = BT
    THEN [s EXCEPT !.in_template = TRUE, !.pos = @ + 1]
    ELSE [s EXCEPT !.pos = @ + 1]

\* the interpolation branch with a '}' that only decrements: a counter
\* that reaches 0 stays on the stack
AdvanceInterpolationNoPop(bytes, s) ==
    LET byte == bytes[s.pos + 1] IN
    IF (s.in_single_quote \/ s.in_double_quote) /\ byte = BSL /\ s.pos + 1 < Len(bytes)
    THEN [s EXCEPT !.pos = @ + 2]
    ELSE IF s.in_single_quote
    THEN [s EXCEPT !.in_single_quote = (byte # SQ), !.pos = @ + 1]
    ELSE IF s.in_double_quote
    THEN [s EXCEPT !.in_double_quote = (byte # DQ), !.pos = @ + 1]
    ELSE IF byte = LBRACE
    THEN [s EXCEPT !.template_interp_depth = BumpTop(@, 1), !.pos = @ + 1]
    ELSE IF byte = RBRACE
    THEN [s EXCEPT !.template_interp_depth = BumpTop(@, -1), !.pos = @ + 1]
    ELSE IF byte = SQ
    THEN [s EXCEPT !.in_single_quote = TRUE, !.pos = @ + 1]
    ELSE IF byte = DQ
    THEN [s EXCEPT !.in_double_quote = TRUE, !.pos = @ + 1]
    ELSE IF byte = BT
    THEN [s EXCEPT !.in_template = TRUE, !.pos = @ + 1]
    ELSE [s EXCEPT !.pos = @ + 1]

\* the interpolation branch with the comment openers of the code branch:
\* // and /* enter a comment inside ${...}
AdvanceInterpolationEntersComments(bytes, s) ==
    LET byte == bytes[s.pos + 1]
        next == IF s.pos + 2 <= Len(bytes) THEN bytes[s.pos + 2] ELSE None
    IN
    IF (s.in_single_quote \/ s.in_double_quote) /\ byte = BSL /\ s.pos + 1 < Len(bytes)
    THEN [s EXCEPT !.pos = @ + 2]
    ELSE IF s.in_single_quote
    THEN [s EXCEPT !.in_single_quote = (byte # SQ), !.pos = @ + 1]
    ELSE IF s.in_double_quote
    THEN [s EXCEPT !.in_double_quote = (byte # DQ), !.pos = @ + 1]
    ELSE IF byte = SLASH /\ next = SLASH
    THEN [s EXCEPT !.in_line_comment = TRUE, !.pos = @ + 2]
    ELSE IF byte = SLASH /\ next = STAR
    THEN [s EXCEPT !.in_block_comment = TRUE, !.pos = @ + 2]
    ELSE IF byte = LBRACE
    THEN [s EXCEPT !.template_interp_depth = BumpTop(@, 1), !.pos = @ + 1]
    ELSE IF byte = RBRACE
    THEN IF s.template_interp_depth[Len(s.template_interp_depth)] - 1 = 0
         THEN [s EXCEPT !.template_interp_depth = Pop(@),
                        !.in_template = TRUE,
                        !.pos = @ + 1]
         ELSE [s EXCEPT !.template_interp_depth = BumpTop(@, -1), !.pos = @ + 1]
    ELSE IF byte = SQ
    THEN [s EXCEPT !.in_single_quote = TRUE, !.pos = @ + 1]
    ELSE IF byte = DQ
    THEN [s EXCEPT !.in_double_quote = TRUE, !.pos = @ + 1]
    ELSE IF byte = BT
    THEN [s EXCEPT !.in_template = TRUE, !.pos = @ + 1]
    ELSE [s EXCEPT !.pos = @ + 1]

\* the interpolation branch of advance(), scanner.rs lines 92-139
AdvanceInterpolation(bytes, s) ==
    LET byte == bytes[s.pos + 1] IN
    IF (s.in_single_quote \/ s.in_double_quote) /\ byte = BSL /\ s.pos + 1 < Len(bytes)
    THEN [s EXCEPT !.pos = @ + 2]
    ELSE IF s.in_single_quote
    THEN [s EXCEPT !.in_single_quote = (byte # SQ), !.pos = @ + 1]
    ELSE IF s.in_double_quote
    THEN [s EXCEPT !.in_double_quote = (byte # DQ), !.pos = @ + 1]
    ELSE IF byte = LBRACE
    THEN [s EXCEPT !.template_interp_depth = BumpTop(@, 1), !.pos = @ + 1]
    ELSE IF byte = RBRACE
    THEN IF s.template_interp_depth[Len(s.template_interp_depth)] - 1 = 0
         THEN [s EXCEPT !.template_interp_depth = Pop(@),
                        !.in_template = TRUE,
                        !.pos = @ + 1]
         ELSE [s EXCEPT !.template_interp_depth = BumpTop(@, -1), !.pos = @ + 1]
    ELSE IF byte = SQ
    THEN [s EXCEPT !.in_single_quote = TRUE, !.pos = @ + 1]
    ELSE IF byte = DQ
    THEN [s EXCEPT !.in_double_quote = TRUE, !.pos = @ + 1]
    ELSE IF byte = BT
    THEN [s EXCEPT !.in_template = TRUE, !.pos = @ + 1]
    ELSE [s EXCEPT !.pos = @ + 1]

\* the string branch with a backslash that is an ordinary byte
AdvanceStringNoEscape(bytes, s) ==
    LET byte == bytes[s.pos + 1]
        next == Get(bytes, s.pos + 1)
    IN
    IF s.in_single_quote /\ byte = SQ
    THEN [s EXCEPT !.in_single_quote = FALSE, !.pos = @ + 1]
    ELSE IF s.in_double_quote /\ byte = DQ
    THEN [s EXCEPT !.in_double_quote = FALSE, !.pos = @ + 1]
    ELSE IF s.in_template /\ byte = BT
    THEN [s EXCEPT !.in_template = FALSE, !.pos = @ + 1]
    ELSE IF s.in_template /\ byte = DOLLAR /\ next = LBRACE
    THEN [s EXCEPT !.in_template = FALSE,
                   !.template_interp_depth = Append(@, 1),
                   !.pos = @ + 2]
    ELSE [s EXCEPT !.pos = @ + 1]

\* the string branch with a "${" that pushes a counter of 0
AdvanceStringPushZero(bytes, s) ==
    LET byte == bytes[s.pos + 1]
        next == Get(bytes, s.pos + 1)
    IN
    IF byte = BSL
    THEN [s EXCEPT !.pos = @ + (IF s.pos + 1 < Len(bytes) THEN 2 ELSE 1)]
    ELSE IF s.in_single_quote /\ byte = SQ
    THEN [s EXCEPT !.in_single_quote = FALSE, !.pos = @ + 1]
    ELSE IF s.in_double_quote /\ byte = DQ
    THEN [s EXCEPT !.in_double_quote = FALSE, !.pos = @ + 1]
    ELSE IF s.in_template /\ byte = BT
    THEN [s EXCEPT !.in_template = FALSE, !.pos = @ + 1]
    ELSE IF s.in_template /\ byte = DOLLAR /\ next = LBRACE
    THEN [s EXCEPT !.in_template = FALSE,
                   !.template_interp_depth = Append(@, 0),
                   !.pos = @ + 2]
    ELSE [s EXCEPT !.pos = @ + 1]

\* the string branch with a backslash that always takes two bytes
AdvanceStringEscapeTwo(bytes, s) ==
    LET byte == bytes[s.pos + 1]
        next == Get(bytes, s.pos + 1)
    IN
    IF byte = BSL
    THEN [s EXCEPT !.pos = @ + 2]
    ELSE IF s.in_single_quote /\ byte = SQ
    THEN [s EXCEPT !.in_single_quote = FALSE, !.pos = @ + 1]
    ELSE IF s.in_double_quote /\ byte = DQ
    THEN [s EXCEPT !.in_double_quote = FALSE, !.pos = @ + 1]
    ELSE IF s.in_template /\ byte = BT
    THEN [s EXCEPT !.in_template = FALSE, !.pos = @ + 1]
    ELSE IF s.in_template /\ byte = DOLLAR /\ next = LBRACE
    THEN [s EXCEPT !.in_template = FALSE,
                   !.template_interp_depth = Append(@, 1),
                   !.pos = @ + 2]
    ELSE [s EXCEPT !.pos = @ + 1]

\* the string branch of advance(), scanner.rs lines 141-166
AdvanceString(bytes, s) ==
    LET byte == bytes[s.pos + 1]
        next == Get(bytes, s.pos + 1)
    IN
    IF byte = BSL
    THEN [s EXCEPT !.pos = @ + (IF s.pos + 1 < Len(bytes) THEN 2 ELSE 1)]
    ELSE IF s.in_single_quote /\ byte = SQ
    THEN [s EXCEPT !.in_single_quote = FALSE, !.pos = @ + 1]
    ELSE IF s.in_double_quote /\ byte = DQ
    THEN [s EXCEPT !.in_double_quote = FALSE, !.pos = @ + 1]
    ELSE IF s.in_template /\ byte = BT
    THEN [s EXCEPT !.in_template = FALSE, !.pos = @ + 1]
    ELSE IF s.in_template /\ byte = DOLLAR /\ next = LBRACE
    THEN [s EXCEPT !.in_template = FALSE,
                   !.template_interp_depth = Append(@, 1),
                   !.pos = @ + 2]
    ELSE [s EXCEPT !.pos = @ + 1]

\* the code branch with a "/*" that moves pos by one byte only
AdvanceCodeBlockOpenOne(bytes, s) ==
    LET byte == bytes[s.pos + 1]
        next == Get(bytes, s.pos + 1)
    IN
    IF byte = SQ
    THEN [s EXCEPT !.in_single_quote = TRUE, !.pos = @ + 1]
    ELSE IF byte = DQ
    THEN [s EXCEPT !.in_double_quote = TRUE, !.pos = @ + 1]
    ELSE IF byte = BT
    THEN [s EXCEPT !.in_template = TRUE, !.pos = @ + 1]
    ELSE IF byte = SLASH /\ next = SLASH
    THEN [s EXCEPT !.in_line_comment = TRUE, !.pos = @ + 2]
    ELSE IF byte = SLASH /\ next = STAR
    THEN [s EXCEPT !.in_block_comment = TRUE, !.pos = @ + 1]
    ELSE [s EXCEPT !.pos = @ + 1]

\* the code branch with a '}' that is counted although no interpolation is
\* open
AdvanceCodeCountsCloser(bytes, s) ==
    LET byte == bytes[s.pos + 1]
        next == Get(bytes, s.pos + 1)
    IN
    IF byte = SQ
    THEN [s EXCEPT !.in_single_quote = TRUE, !.pos = @ + 1]
    ELSE IF byte = DQ
    THEN [s EXCEPT !.in_double_quote = TRUE, !.pos = @ + 1]
    ELSE IF byte = BT
    THEN [s EXCEPT !.in_template = TRUE, !.pos = @ + 1]
    ELSE IF byte = RBRACE
    THEN [s EXCEPT !.template_interp_depth = Append(@, -1), !.pos = @ + 1]
    ELSE IF byte = SLASH /\ next = SLASH
    THEN [s EXCEPT !.in_line_comment = TRUE, !.pos = @ + 2]
    ELSE IF byte = SLASH /\ next = STAR
    THEN [s EXCEPT !.in_block_comment = TRUE, !.pos = @ + 2]
    ELSE [s EXCEPT !.pos = @ + 1]

\* the code branch of advance(), scanner.rs lines 168-186
AdvanceCode(bytes, s) ==
    LET byte == bytes[s.pos + 1]
        next == Get(bytes, s.pos + 1)
    IN
    IF byte = SQ
    THEN [s EXCEPT !.in_single_quote = TRUE, !.pos = @ + 1]
    ELSE IF byte = DQ
    THEN [s EXCEPT !.in_double_quote = TRUE, !.pos = @ + 1]
    ELSE IF byte = BT
    THEN [s EXCEPT !.in_template = TRUE, !.pos = @ + 1]
    ELSE IF byte = SLASH /\ next = SLASH
    THEN [s EXCEPT !.in_line_comment = TRUE, !.pos = @ + 2]
    ELSE IF byte = SLASH /\ next = STAR
    THEN [s EXCEPT !.in_block_comment = TRUE, !.pos = @ + 2]
    ELSE [s EXCEPT !.pos = @ + 1]

\* advance() with the template branch tried before the interpolation
\* branch: a "${" in a template opened inside an interpolation pushes a
\* counter of its own
advanceTemplateBeforeInterpolation(bytes, s) ==
    IF s.pos >= Len(bytes)
    THEN s
    ELSE LET byte == bytes[s.pos + 1]
             next == Get(bytes, s.pos + 1)
         IN
         IF s.in_line_comment
         THEN [s EXCEPT !.in_line_comment = (byte # NL), !.pos = @ + 1]
         ELSE IF s.in_block_comment
         THEN IF byte = STAR /\ next = SLASH
              THEN [s EXCEPT !.in_block_comment = FALSE, !.pos = @ + 2]
              ELSE [s EXCEPT !.pos = @ + 1]
         ELSE IF s.in_template
         THEN AdvanceString(bytes, s)
         ELSE IF s.template_interp_depth # <<>>
         THEN AdvanceInterpolation(bytes, s)
         ELSE IF s.in_single_quote \/ s.in_double_quote
         THEN AdvanceString(bytes, s)
         ELSE AdvanceCode(bytes, s)

\* advance() with a line comment that a newline does not end
advanceLineCommentPastNewline(bytes, s) ==
    IF s.pos >= Len(bytes)
    THEN s
    ELSE LET byte == bytes[s.pos + 1]
             next == Get(bytes, s.pos + 1)
         IN
         IF s.in_line_comment
         THEN [s EXCEPT !.pos = @ + 1]
         ELSE IF s.in_block_comment
         THEN IF byte = STAR /\ next = SLASH
              THEN [s EXCEPT !.in_block_comment = FALSE, !.pos = @ + 2]
              ELSE [s EXCEPT !.pos = @ + 1]
         ELSE IF s.template_interp_depth # <<>>
         THEN AdvanceInterpolation(bytes, s)
         ELSE IF s.in_single_quote \/ s.in_double_quote \/ s.in_template
         THEN AdvanceString(bytes, s)
         ELSE AdvanceCode(bytes, s)

\* StringScanner::advance: the scanner after the call (unchanged when the
\* call returns false)
advance(bytes, s) ==
    IF s.pos >= Len(bytes)
    THEN s
    ELSE LET byte == bytes[s.pos + 1]
             next == Get(bytes, s.pos + 1)
         IN
         IF s.in_line_comment
         THEN [s EXCEPT !.in_line_comment = (byte # NL), !.pos = @ + 1]
         ELSE IF s.in_block_comment
         THEN IF byte = STAR /\ next = SLASH
              THEN [s EXCEPT !.in_block_comment = FALSE, !.pos = @ + 2]
              ELSE [s EXCEPT !.pos = @ + 1]
         ELSE IF s.template_interp_depth # <<>>
         THEN AdvanceInterpolation(bytes, s)
         ELSE IF s.in_single_quote \/ s.in_double_quote \/ s.in_template
         THEN AdvanceString(bytes, s)
         ELSE AdvanceCode(bytes, s)

\* the value advance() returns
advance_returns(bytes, s) ==
    s.pos < Len(bytes)

----------------------------------------------------------------------------
(* The private StringScanner of src/rules/sensitive_logging.rs: no line    *)
(* comment state, and a backslash always moves pos by 2.                   *)

\* StringScanner::new (sensitive_logging.rs)
PrivateNew(bytes, from) ==
    [pos |-> from,
     in_single_quote |-> FALSE,
     in_double_quote |-> FALSE,
     in_template |-> FALSE,
     in_block_comment |-> FALSE,
     template_interp_depth |-> <<>>]

\* StringScanner::in_string_or_comment
in_string_or_comment(s) ==
    \/ s.in_single_quote
    \/ s.in_double_quote
    \/ s.in_template
    \/ s.in_block_comment
    \/ s.template_interp_depth # <<>>

\* the interpolation branch of the private advance(), lines 84-122
PrivateAdvanceInterpolation(bytes, s) ==
    LET byte == bytes[s.pos + 1] IN
    IF (s.in_single_quote \/ s.in_double_quote) /\ byte = BSL
    THEN [s EXCEPT !.pos = @ + 2]
    ELSE IF s.in_single_quote
    THEN [s EXCEPT !.in_single_quote = (byte # SQ), !.pos = @ + 1]
    ELSE IF s.in_double_quote
    THEN [s EXCEPT !.in_double_quote = (byte # DQ), !.pos = @ + 1]
    ELSE IF byte = LBRACE
    THEN [s EXCEPT !.template_interp_depth = BumpTop(@, 1), !.pos = @ + 1]
    ELSE IF byte = RBRACE
    THEN IF s.template_interp_depth[Len(s.template_interp_depth)] - 1 = 0
         THEN [s EXCEPT !.template_interp_depth = Pop(@),
                        !.in_template = TRUE,
                        !.pos = @ + 1]
         ELSE [s EXCEPT !.template_interp_depth = BumpTop(@, -1), !.pos = @ + 1]
    ELSE IF byte = SQ
    THEN [s EXCEPT !.in_single_quote = TRUE, !.pos = @ + 1]
    ELSE IF byte = DQ
    THEN [s EXCEPT !.in_double_quote = TRUE, !.pos = @ + 1]
    ELSE IF byte = BT
    THEN [s EXCEPT !.in_template = TRUE, !.pos = @ + 1]
    ELSE [s EXCEPT !.pos = @ + 1]

\* the string branch of the private advance(), lines 124-146
PrivateAdvanceString(bytes, s) ==
    LET byte == bytes[s.pos + 1]
        next == Get(bytes, s.pos + 1)
    IN
    IF byte = BSL
    THEN [s EXCEPT !.pos = @ + 2]
    ELSE IF s.in_single_quote /\ byte = SQ
    THEN [s EXCEPT !.in_single_quote = FALSE, !.pos = @ + 1]
    ELSE IF s.in_double_quote /\ byte = DQ
    THEN [s EXCEPT !.in_double_quote = FALSE, !.pos = @ + 1]
    ELSE IF s.in_template /\ byte = BT
    THEN [s EXCEPT !.in_template = FALSE, !.pos = @ + 1]
    ELSE IF s.in_template /\ byte = DOLLAR /\ next = LBRACE
    THEN [s EXCEPT !.in_template = FALSE,
                   !.template_interp_depth = Append(@, 1),
                   !.pos = @ + 2]
    ELSE [s EXCEPT !.pos = @ + 1]

\* the code branch of the private advance(), lines 148-162
PrivateAdvanceCode(bytes, s) ==
    LET byte == bytes[s.pos + 1]
        next == Get(bytes, s.pos + 1)
    IN
    IF byte = SQ
    THEN [s EXCEPT !.in_single_quote = TRUE, !.pos = @ + 1]
    ELSE IF byte = DQ
    THEN [s EXCEPT !.in_double_quote = TRUE, !.pos = @ + 1]
    ELSE IF byte = BT
    THEN [s EXCEPT !.in_template = TRUE, !.pos = @ + 1]
    ELSE IF byte = SLASH /\ next = STAR
    THEN [s EXCEPT !.in_block_comment = TRUE, !.pos = @ + 2]
    ELSE [s EXCEPT !.pos = @ + 1]

\* StringScanner::advance (sensitive_logging.rs): the scanner after the call
PrivateAdvance(bytes, s) ==
    IF s.pos >= Len(bytes)
    THEN s
    ELSE LET byte == bytes[s.pos + 1]
             next == Get(bytes, s.pos + 1)
         IN
         IF s.in_block_comment
         THEN IF byte = STAR /\ next = SLASH
              THEN [s EXCEPT !.in_block_comment = FALSE, !.pos = @ + 2]
              ELSE [s EXCEPT !.pos = @ + 1]
         ELSE IF s.template_interp_depth # <<>>
         THEN PrivateAdvanceInterpolation(bytes, s)
         ELSE IF s.in_single_quote \/ s.in_double_quote \/ s.in_template
         THEN PrivateAdvanceString(bytes, s)
         ELSE PrivateAdvanceCode(bytes, s)

----------------------------------------------------------------------------
(* extract_paren_content, src/rules/sensitive_logging.rs lines 166-191.    *)
(* Its locals are the private scanner and depth.                           *)

\* Option<&str>: Some(s), None, or the panic of an out-of-range slice
Some(s) ==
    [kind |-> "Some", val |-> s]

NoneStr ==
    [kind |-> "None", val |-> <<>>]

Panic ==
    [kind |-> "Panic", val |-> <<>>]

\* &content[from..to] with Rust's range checks
CheckedSlice(bytes, from, to) ==
    IF from <= to /\ to <= Len(bytes) /\ from >= 0
    THEN Some(Slice(bytes, from, to))
    ELSE Panic

\* the loop condition of extract_paren_content, line 171
ParenLoopCond(bytes, s, depth) ==
    s.pos < Len(bytes) /\ depth > 0

\* depth counted over every parenthesis, whatever the scanner's context
ParenDepthAfterAnyContext(bytes, s, depth) ==
    LET byte == Get(bytes, s.pos) IN
    IF byte = LPAREN
    THEN depth + 1
    ELSE IF byte = RPAREN
    THEN depth - 1
    ELSE depth

\* depth after one iteration of the loop, lines 172-183
ParenDepthAfter(bytes, s, depth) ==
    LET in_context == in_string_or_comment(s)
        byte == Get(bytes, s.pos)
    IN
    IF ~in_context /\ byte = LPAREN
    THEN depth + 1
    ELSE IF ~in_context /\ byte = RPAREN
    THEN depth - 1
    ELSE depth

\* a return that hands out what was scanned when the input ended early
ParenResultPartial(bytes, from, s, depth) ==
    IF depth = 0
    THEN CheckedSlice(bytes, from, s.pos - 1)
    ELSE CheckedSlice(bytes, from, s.pos)

\* the value extract_paren_content returns once its loop has ended,
\* lines 186-190
ParenResult(bytes, from, s, depth) ==
    IF depth = 0
    THEN CheckedSlice(bytes, from, s.pos - 1)
    ELSE NoneStr

RECURSIVE ParenLoop(_, _, _, _)
\* the loop of extract_paren_content run to its end, and its return
ParenLoop(bytes, from, s, depth) ==
    IF ParenLoopCond(bytes, s, depth)
    THEN ParenLoop(bytes, from, PrivateAdvance(bytes, s), ParenDepthAfter(bytes, s, depth))
    ELSE ParenResult(bytes, from, s, depth)

\* extract_paren_content(content, start)
extract_paren_content(bytes, from) ==
    ParenLoop(bytes, from, PrivateNew(bytes, from), 1)

----------------------------------------------------------------------------
(* extract_brace_content, src/rules/test_assertion.rs lines 21-167.        *)

\* the locals at entry, lines 22-31
BraceEntry(from) ==
    [depth |-> 1,
     pos |-> from,
     in_single_quote |-> FALSE,
     in_double_quote |-> FALSE,
     in_template |-> FALSE,
     in_line_comment |-> FALSE,
     in_block_comment |-> FALSE,
     template_interp_depth |-> <<>>]

\* the loop condition, line 33
BraceLoopCond(bytes, b) ==
    b.pos < Len(bytes) /\ b.depth > 0

\* a template body whose braces count towards the searched depth and in
\* which an interpolation is not recognised
BraceTemplateCountsBraces(bytes, b) ==
    LET byte == bytes[b.pos + 1] IN
    IF byte = BSL /\ b.pos + 1 < Len(bytes)
    THEN [b EXCEPT !.pos = @ + 2]
    ELSE IF byte = LBRACE
    THEN [b EXCEPT !.depth = @ + 1, !.pos = @ + 1]
    ELSE IF byte = RBRACE
    THEN [b EXCEPT !.depth = @ - 1, !.pos = @ + 1]
    ELSE [b EXCEPT !.in_template = (byte # BT), !.pos = @ + 1]

\* inside a template literal body, lines 55-71
BraceTemplate(bytes, b) ==
    LET byte == bytes[b.pos + 1]
        next_byte == Get(bytes, b.pos + 1)
    IN
    IF byte = BSL /\ b.pos + 1 < Len(bytes)
    THEN [b EXCEPT !.pos = @ + 2]
    ELSE IF byte = DOLLAR /\ next_byte = LBRACE
    THEN [b EXCEPT !.in_template = FALSE,
                   !.template_interp_depth = Append(@, 1),
                   !.pos = @ + 2]
    ELSE [b EXCEPT !.in_template = (byte # BT), !.pos = @ + 1]

\* inside a quoted string, lines 74-86 and 124-136
BraceQuoted(bytes, b) ==
    LET byte == bytes[b.pos + 1] IN
    IF byte = BSL /\ b.pos + 1 < Len(bytes)
    THEN [b EXCEPT !.pos = @ + 2]
    ELSE IF b.in_single_quote /\ byte = SQ
    THEN [b EXCEPT !.in_single_quote = FALSE, !.pos = @ + 1]
    ELSE IF b.in_double_quote /\ byte = DQ
    THEN [b EXCEPT !.in_double_quote = FALSE, !.pos = @ + 1]
    ELSE [b EXCEPT !.pos = @ + 1]

\* an interpolation whose braces are counted on the searched depth instead
\* of on a counter of their own
BraceInterpolationSharedCounter(bytes, b) ==
    LET byte == bytes[b.pos + 1] IN
    IF b.in_single_quote \/ b.in_double_quote
    THEN BraceQuoted(bytes, b)
    ELSE IF byte = SQ
    THEN [b EXCEPT !.in_single_quote = TRUE, !.pos = @ + 1]
    ELSE IF byte = DQ
    THEN [b EXCEPT !.in_double_quote = TRUE, !.pos = @ + 1]
    ELSE IF byte = BT
    THEN [b EXCEPT !.in_template = TRUE, !.pos = @ + 1]
    ELSE IF byte = LBRACE
    THEN [b EXCEPT !.depth = @ + 1, !.pos = @ + 1]
    ELSE IF byte = RBRACE
    THEN IF b.depth - 1 = 1
         THEN [b EXCEPT !.depth = 1,
                        !.template_interp_depth = Pop(@),
                        !.in_template = TRUE,
                        !.pos = @ + 1]
         ELSE [b EXCEPT !.depth = @ - 1, !.pos = @ + 1]
    ELSE [b EXCEPT !.pos = @ + 1]

\* inside an interpolation, lines 73-122
BraceInterpolation(bytes, b) ==
    LET byte == bytes[b.pos + 1] IN
    IF b.in_single_quote \/ b.in_double_quote
    THEN BraceQuoted(bytes, b)
    ELSE IF byte = BSL /\ b.pos + 1 < Len(bytes)
    THEN [b EXCEPT !.pos = @ + 2]
    ELSE IF byte = SQ
    THEN [b EXCEPT !.in_single_quote = TRUE, !.pos = @ + 1]
    ELSE IF byte = DQ
    THEN [b EXCEPT !.in_double_quote = TRUE, !.pos = @ + 1]
    ELSE IF byte = BT
    THEN [b EXCEPT !.in_template = TRUE, !.pos = @ + 1]
    ELSE IF byte = LBRACE
    THEN [b EXCEPT !.template_interp_depth = BumpTop(@, 1), !.pos = @ + 1]
    ELSE IF byte = RBRACE
    THEN IF b.template_interp_depth[Len(b.template_interp_depth)] - 1 = 0
         THEN [b EXCEPT !.template_interp_depth = Pop(@),
                        !.in_template = TRUE,
                        !.pos = @ + 1]
         ELSE [b EXCEPT !.template_interp_depth = BumpTop(@, -1), !.pos = @ + 1]
    ELSE [b EXCEPT !.pos = @ + 1]

\* in code, lines 138-159
BraceCode(bytes, b) ==
    LET byte == bytes[b.pos + 1]
        next_byte == Get(bytes, b.pos + 1)
    IN
    IF byte = SLASH /\ next_byte = SLASH
    THEN [b EXCEPT !.in_line_comment = TRUE, !.pos = @ + 2]
    ELSE IF byte = SLASH /\ next_byte = STAR
    THEN [b EXCEPT !.in_block_comment = TRUE, !.pos = @ + 2]
    ELSE IF byte = SQ
    THEN [b EXCEPT !.in_single_quote = TRUE, !.pos = @ + 1]
    ELSE IF byte = DQ
    THEN [b EXCEPT !.in_double_quote = TRUE, !.pos = @ + 1]
    ELSE IF byte = BT
    THEN [b EXCEPT !.in_template = TRUE, !.pos = @ + 1]
    ELSE IF byte = LBRACE
    THEN [b EXCEPT !.depth = @ + 1, !.pos = @ + 1]
    ELSE IF byte = RBRACE
    THEN [b EXCEPT !.depth = @ - 1, !.pos = @ + 1]
    ELSE [b EXCEPT !.pos = @ + 1]

\* one iteration of the loop, lines 34-159
BraceLoopBody(bytes, b) ==
    LET byte == bytes[b.pos + 1]
        next_byte == Get(bytes, b.pos + 1)
    IN
    IF b.in_line_comment
    THEN [b EXCEPT !.in_line_comment = (byte # NL), !.pos = @ + 1]
    ELSE IF b.in_block_comment
    THEN IF byte = STAR /\ next_byte = SLASH
         THEN [b EXCEPT !.in_block_comment = FALSE, !.pos = @ + 2]
         ELSE [b EXCEPT !.pos = @ + 1]
    ELSE IF b.in_template
    THEN BraceTemplate(bytes, b)
    ELSE IF b.template_interp_depth # <<>>
    THEN BraceInterpolation(bytes, b)
    ELSE IF b.in_single_quote \/ b.in_double_quote
    THEN BraceQuoted(bytes, b)
    ELSE BraceCode(bytes, b)

\* the value extract_brace_content returns once its loop has ended,
\* lines 162-166
BraceResult(bytes, from, b) ==
    IF b.depth = 0
    THEN CheckedSlice(bytes, from, b.pos - 1)
    ELSE NoneStr

RECURSIVE BraceLoop(_, _, _)
\* the loop of extract_brace_content run to its end, and its return
BraceLoop(bytes, from, b) ==
    IF BraceLoopCond(bytes, b)
    THEN BraceLoop(bytes, from, BraceLoopBody(bytes, b))
    ELSE BraceResult(bytes, from, b)

\* extract_brace_content(content, start)
extract_brace_content(bytes, from) ==
    BraceLoop(bytes, from, BraceEntry(from))

----------------------------------------------------------------------------
(* The comment-line helpers of src/rules/mod.rs lines 24-57, and the rule  *)
(* of src/rules/flaky_test.rs built on them.                               *)

\* Option<u32>
SomeLine(n) ==
    [kind |-> "Some", val |-> n]

NoneLine ==
    [kind |-> "None", val |-> 0]

\* the offsets of the newlines of content
NewlineOffsets(content) ==
    {i \in 0..(Len(content) - 1) : content[i + 1] = NL}

\* str::lines(): the text between newlines, a last line without a newline
\* included and an empty remainder after the last newline left out
Lines(content) ==
    LET nl == NewlineOffsets(content)
        starts == {0} \cup {i + 1 : i \in {j \in nl : j + 1 < Len(content)}}
        count == IF content = <<>> THEN 0 ELSE Cardinality(starts)
        StartOf(k) == CHOOSE b \in starts : Cardinality({c \in starts : c < b}) = k - 1
        EndOf(b) == IF \E j \in nl : j >= b
                    THEN CHOOSE j \in nl : j >= b /\ \A h \in nl : h >= b => j <= h
                    ELSE Len(content)
    IN [k \in 1..count |-> Slice(content, StartOf(k), EndOf(StartOf(k)))]

RECURSIVE trim_start(_)
\* str::trim_start()
trim_start(line) ==
    IF line # <<>> /\ Head(line) = SPACE
    THEN trim_start(Tail(line))
    ELSE line

\* str::starts_with(prefix)
starts_with(line, prefix) ==
    Len(line) >= Len(prefix) /\ SubSeq(line, 1, Len(prefix)) = prefix

\* starts_with_comment with the leading whitespace left in place
starts_with_comment_untrimmed(line) ==
    \/ starts_with(line, <<SLASH, SLASH>>)
    \/ starts_with(line, <<SLASH, STAR>>)
    \/ starts_with(line, <<STAR, SPACE>>)
    \/ line = <<STAR>>

\* starts_with_comment, lines 28-34
starts_with_comment(line) ==
    LET trimmed == trim_start(line) IN
    \/ starts_with(trimmed, <<SLASH, SLASH>>)
    \/ starts_with(trimmed, <<SLASH, STAR>>)
    \/ starts_with(trimmed, <<STAR, SPACE>>)
    \/ trimmed = <<STAR>>

\* non_comment_lines, lines 39-45: the 1-based numbers of the lines kept
non_comment_lines(content) ==
    {k \in DOMAIN Lines(content) : ~starts_with_comment(Lines(content)[k])}

\* Regex::is_match for the regex of a literal
is_match(pattern, line) ==
    \E o \in 0..(Len(line) - Len(pattern)) :
        Slice(line, o, o + Len(pattern)) = pattern

\* find_non_comment_match, lines 47-51
find_non_comment_match(content, pattern) ==
    LET hits == {k \in non_comment_lines(content) : is_match(pattern, Lines(content)[k])} IN
    IF hits = {}
    THEN NoneLine
    ELSE SomeLine(CHOOSE k \in hits : \A h \in hits : k <= h)

\* count_non_comment_matches counting the occurrences of the pattern
\* instead of the lines that hold one
count_non_comment_matches_occurrences(content, pattern) ==
    LET kept == non_comment_lines(content)
        hits == {<<k, o>> \in kept \X (0..Len(content)) :
                    /\ o + Len(pattern) <= Len(Lines(content)[k])
                    /\ Slice(Lines(content)[k], o, o + Len(pattern)) = pattern}
    IN Cardinality(hits)

\* count_non_comment_matches, lines 53-57
count_non_comment_matches(content, pattern) ==
    Cardinality({k \in non_comment_lines(content) : is_match(pattern, Lines(content)[k])})

\* the checker of the flaky-test rule for one of its patterns,
\* src/rules/flaky_test.rs lines 60-76
flaky_test_rule(content, pattern) ==
    LET found == find_non_comment_match(content, pattern) IN
    IF found.kind = "Some"
    THEN <<[rule |-> "flaky-test", line |-> found]>>
    ELSE <<>>

----------------------------------------------------------------------------
(* The sensitive-logging rule, src/rules/sensitive_logging.rs.  A word of  *)
(* the source text is one unit of the model's texts: CONSOLE is a match of *)
(* console\.(log|warn|error|info|debug), LOGGER a match of                 *)
(* (logger|log)\.(log|warn|error|info|debug), KEYWORD one of the words of  *)
(* RE_SENSITIVE_KEYWORD.                                                   *)

CONSOLE == "console.log"
LOGGER == "logger.info"
KEYWORD == "password"

\* \s
Whitespace ==
    {SPACE, NL}

\* \w, for \b
WordBytes ==
    {LETTER, CONSOLE, LOGGER, KEYWORD}

RECURSIVE SkipWhitespace(_, _)
\* the offset after the run of \s* that begins at offset o
SkipWhitespace(bytes, o) ==
    IF o < Len(bytes) /\ bytes[o + 1] \in Whitespace
    THEN SkipWhitespace(bytes, o + 1)
    ELSE o

RECURSIVE find_iter(_, _, _)
\* Regex::find_iter for word\s*\( from offset o on: the matches in text
\* order, each with the offsets of its start and end
find_iter(bytes, word, o) ==
    IF o >= Len(bytes)
    THEN <<>>
    ELSE LET e == SkipWhitespace(bytes, o + 1) IN
         IF bytes[o + 1] = word /\ Get(bytes, e) = LPAREN
         THEN <<[start |-> o, end |-> e + 1]>> \o find_iter(bytes, word, e + 1)
         ELSE find_iter(bytes, word, o + 1)

\* content[..pos].rfind('\n').map(|i| i + 1).unwrap_or(0), line 194
line_start(bytes, pos) ==
    LET before == {j \in NewlineOffsets(bytes) : j < pos} IN
    IF before = {}
    THEN 0
    ELSE 1 + CHOOSE j \in before : \A h \in before : h <= j

\* the test of lines 199-202: a comment marker in code at the scanner
IsInCommentFound(bytes, s) ==
    /\ ~in_string_or_comment(s)
    /\ Get(bytes, s.pos) = SLASH
    /\ Get(bytes, s.pos + 1) \in {SLASH, STAR}

RECURSIVE IsInCommentLoop(_, _, _)
\* the loop of is_in_comment and its return, lines 198-208
IsInCommentLoop(bytes, s, pos) ==
    IF s.pos < pos
    THEN IF IsInCommentFound(bytes, s)
         THEN TRUE
         ELSE IsInCommentLoop(bytes, PrivateAdvance(bytes, s), pos)
    ELSE s.in_block_comment

\* is_in_comment scanning from the start of the text
is_in_comment_from_text_start(bytes, pos) ==
    IsInCommentLoop(bytes, PrivateNew(bytes, 0), pos)

\* is_in_comment, lines 193-209
is_in_comment(bytes, pos) ==
    IsInCommentLoop(bytes, PrivateNew(bytes, line_start(bytes, pos)), pos)

RECURSIVE SkipToNewline(_, _)
\* the inner loop of extract_code_portions, lines 235-237
SkipToNewline(bytes, pos) ==
    IF pos < Len(bytes) /\ bytes[pos + 1] # NL
    THEN SkipToNewline(bytes, pos + 1)
    ELSE pos

\* in_interpolation of lines 222-224
CodePortionsInInterpolation(s) ==
    /\ s.template_interp_depth # <<>>
    /\ ~s.in_single_quote
    /\ ~s.in_double_quote

\* skip of lines 227-231 that leaves template text in
CodePortionsSkipKeepsTemplate(s) ==
    /\ \/ s.in_single_quote
       \/ s.in_double_quote
       \/ s.in_block_comment
    /\ ~CodePortionsInInterpolation(s)

\* skip of lines 227-231
CodePortionsSkip(s) ==
    /\ \/ s.in_single_quote
       \/ s.in_double_quote
       \/ s.in_template
       \/ s.in_block_comment
    /\ ~CodePortionsInInterpolation(s)

\* the test of line 234: a line comment starts at the scanner
CodePortionsLineComment(bytes, s) ==
    /\ ~CodePortionsSkip(s)
    /\ ~CodePortionsInInterpolation(s)
    /\ Get(bytes, s.pos) = SLASH
    /\ Get(bytes, s.pos + 1) = SLASH

\* the scanner after one iteration of the loop of extract_code_portions
\* that leaves a line comment where it starts
CodePortionsScannerStuck(bytes, s) ==
    IF CodePortionsLineComment(bytes, s)
    THEN s
    ELSE PrivateAdvance(bytes, s)

\* the scanner after one iteration of the loop of extract_code_portions,
\* lines 219-241
CodePortionsScanner(bytes, s) ==
    IF CodePortionsLineComment(bytes, s)
    THEN [s EXCEPT !.pos = SkipToNewline(bytes, s.pos)]
    ELSE PrivateAdvance(bytes, s)

RECURSIVE CodePortionsLoop(_, _, _)
\* the loop of extract_code_portions, lines 218-248
CodePortionsLoop(bytes, s, code) ==
    IF s.pos < Len(bytes)
    THEN CodePortionsLoop(bytes, CodePortionsScanner(bytes, s),
                          IF CodePortionsLineComment(bytes, s) \/ CodePortionsSkip(s)
                          THEN code
                          ELSE Append(code, Get(bytes, s.pos)))
    ELSE code

\* extract_code_portions, lines 213-251
extract_code_portions(bytes) ==
    CodePortionsLoop(bytes, PrivateNew(bytes, 0), <<>>)

\* RE_SENSITIVE_KEYWORD.is_match: a keyword between two word boundaries
keyword_is_match(code) ==
    \E i \in 1..Len(code) :
        /\ code[i] = KEYWORD
        /\ i > 1 => code[i - 1] \notin WordBytes
        /\ i < Len(code) => code[i + 1] \notin WordBytes

\* contains_sensitive_keyword, lines 253-256
contains_sensitive_keyword(bytes) ==
    keyword_is_match(extract_code_portions(bytes))

\* build_line_offsets, lines 259-264
build_line_offsets(content) ==
    NewlineOffsets(content)

\* offset_to_line, lines 266-270: the index binary_search returns, found or
\* not, is the number of smaller offsets
offset_to_line(offsets, offset) ==
    Cardinality({j \in offsets : j < offset}) + 1

\* the matches of the two loops of the rule in the order they are taken,
\* lines 303-319
LogMatches(content) ==
    LET Tag(ms, m) == [k \in DOMAIN ms |-> [start |-> ms[k].start, end |-> ms[k].end, msg |-> m]]
    IN Tag(find_iter(content, CONSOLE, 0), "console") \o Tag(find_iter(content, LOGGER, 0), "logger")

\* check_match that reports a line as often as it has reportable calls
check_match_reports_every_match(content, caps, st) ==
    LET args == extract_paren_content(content, caps.end)
        line_num == offset_to_line(build_line_offsets(content), caps.start)
    IN
    IF is_in_comment(content, caps.start)
    THEN st
    ELSE IF args.kind = "Panic"
    THEN [st EXCEPT !.pc = "panic"]
    ELSE IF args.kind = "None"
    THEN st
    ELSE IF ~contains_sensitive_keyword(args.val)
    THEN st
    ELSE [st EXCEPT !.reported_lines = @ \cup {line_num},
                    !.violations = Append(@, [rule |-> "sensitive-logging",
                                              severity |-> "High",
                                              failure |-> caps.msg,
                                              line |-> line_num])]

\* check_match that reports a call whose arguments cannot be extracted
check_match_reports_unextracted(content, caps, st) ==
    LET args == extract_paren_content(content, caps.end)
        line_num == offset_to_line(build_line_offsets(content), caps.start)
    IN
    IF is_in_comment(content, caps.start)
    THEN st
    ELSE IF args.kind = "Panic"
    THEN [st EXCEPT !.pc = "panic"]
    ELSE IF args.kind = "Some" /\ ~contains_sensitive_keyword(args.val)
    THEN st
    ELSE IF line_num \in st.reported_lines
    THEN st
    ELSE [st EXCEPT !.reported_lines = @ \cup {line_num},
                    !.violations = Append(@, [rule |-> "sensitive-logging",
                                              severity |-> "High",
                                              failure |-> caps.msg,
                                              line |-> line_num])]

\* the closure check_match, lines 280-301
check_match(content, caps, st) ==
    LET args == extract_paren_content(content, caps.end)
        line_num == offset_to_line(build_line_offsets(content), caps.start)
    IN
    IF is_in_comment(content, caps.start)
    THEN st
    ELSE IF args.kind = "Panic"
    THEN [st EXCEPT !.pc = "panic"]
    ELSE IF args.kind = "None"
    THEN st
    ELSE IF ~contains_sensitive_keyword(args.val)
    THEN st
    ELSE IF line_num \in st.reported_lines
    THEN st
    ELSE [st EXCEPT !.reported_lines = @ \cup {line_num},
                    !.violations = Append(@, [rule |-> "sensitive-logging",
                                              severity |-> "High",
                                              failure |-> caps.msg,
                                              line |-> line_num])]

----------------------------------------------------------------------------
(* The test-assertion rule, src/rules/test_assertion.rs lines 169-208.     *)
(* IT is a match of (it|test), ARROW of =>, NAME a test name, ASSERTION a  *)
(* match of RE_ASSERTION.                                                  *)

IT == "it"
ARROW == "=>"
NAME == "name"
ASSERTION == ".toBe"

\* the match of RE_TEST_START without optional whitespace:
\* it('name',()=>{
TestStart ==
    <<IT, LPAREN, SQ, NAME, SQ, COMMA, LPAREN, RPAREN, ARROW, LBRACE>>

RECURSIVE captures_iter(_, _)
\* RE_TEST_START.captures_iter from offset o on
captures_iter(bytes, o) ==
    IF o + Len(TestStart) > Len(bytes)
    THEN <<>>
    ELSE IF Slice(bytes, o, o + Len(TestStart)) = TestStart
    THEN <<[start |-> o, end |-> o + Len(TestStart), name |-> bytes[o + 4]]>>
             \o captures_iter(bytes, o + Len(TestStart))
    ELSE captures_iter(bytes, o + 1)

\* Option::unwrap_or("") of line 179; a panic stays a panic
unwrap_or_empty(opt) ==
    IF opt.kind = "None" THEN Some(<<>>) ELSE opt

\* RE_ASSERTION.is_match
assertion_is_match(body) ==
    \E i \in 1..Len(body) : body[i] = ASSERTION

RECURSIVE trim_end(_)
\* str::trim_end()
trim_end(body) ==
    IF body # <<>> /\ body[Len(body)] \in Whitespace
    THEN trim_end(SubSeq(body, 1, Len(body) - 1))
    ELSE body

RECURSIVE trim(_)
\* str::trim()
trim(body) ==
    IF body # <<>> /\ Head(body) \in Whitespace
    THEN trim(Tail(body))
    ELSE trim_end(body)

\* test_candidate without the test of line 186 for a body that begins with
\* a line comment
test_candidate_reports_commented(content, caps, st) ==
    LET test_body == unwrap_or_empty(extract_brace_content(content, caps.end))
        trimmed == trim(test_body.val)
        line_num == Len(Lines(Slice(content, 0, caps.start))) + 1
    IN
    IF test_body.kind = "Panic"
    THEN [st EXCEPT !.pc = "panic"]
    ELSE IF assertion_is_match(test_body.val)
    THEN st
    ELSE IF trimmed = <<>>
    THEN st
    ELSE [st EXCEPT !.violations = Append(@, [rule |-> "test-assertion",
                                              severity |-> "Medium",
                                              failure |-> caps.name,
                                              line |-> line_num])]

\* one iteration of the loop of the checker, lines 175-203
test_candidate(content, caps, st) ==
    LET test_body == unwrap_or_empty(extract_brace_content(content, caps.end))
        trimmed == trim(test_body.val)
        line_num == Len(Lines(Slice(content, 0, caps.start))) + 1
    IN
    IF test_body.kind = "Panic"
    THEN [st EXCEPT !.pc = "panic"]
    ELSE IF assertion_is_match(test_body.val)
    THEN st
    ELSE IF trimmed = <<>> \/ starts_with(trimmed, <<SLASH, SLASH>>)
    THEN st
    ELSE [st EXCEPT !.violations = Append(@, [rule |-> "test-assertion",
                                              severity |-> "Medium",
                                              failure |-> caps.name,
                                              line |-> line_num])]

----------------------------------------------------------------------------
(* The lexical structure the scanners are meant to track (spec 4.1), as a  *)
(* stack of open constructs [k, n]: k is "sq", "dq", "tpl", "lc", "bc" or  *)
(* "interp", and n is the brace count (>= 1) of an open interpolation.     *)
(* The empty stack is top-level code.  Comments are not recognised inside  *)
(* an interpolation.  This is the yardstick the claims are stated          *)
(* against, not a model of any code.                                       *)

Open(kind) ==
    [k |-> kind, n |-> 0]

LexTop(stk) ==
    IF stk = <<>> THEN "code" ELSE stk[Len(stk)].k

LexBump(stk, d) ==
    [stk EXCEPT ![Len(stk)].n = @ + d]

\* one lexical token read at offset i with stk open: the bytes it takes
\* and the constructs open after it
LexStep(bytes, i, stk) ==
    LET byte == bytes[i + 1]
        next == Get(bytes, i + 1)
        top == LexTop(stk)
        two == IF i + 1 < Len(bytes) THEN 2 ELSE 1
    IN
    IF top = "lc"
    THEN [n |-> 1, stk |-> IF byte = NL THEN Pop(stk) ELSE stk]
    ELSE IF top = "bc"
    THEN IF byte = STAR /\ next = SLASH
         THEN [n |-> 2, stk |-> Pop(stk)]
         ELSE [n |-> 1, stk |-> stk]
    ELSE IF top \in {"sq", "dq", "tpl"}
    THEN IF byte = BSL
         THEN [n |-> two, stk |-> stk]
         ELSE IF \/ top = "sq" /\ byte = SQ
                 \/ top = "dq" /\ byte = DQ
                 \/ top = "tpl" /\ byte = BT
         THEN [n |-> 1, stk |-> Pop(stk)]
         ELSE IF top = "tpl" /\ byte = DOLLAR /\ next = LBRACE
         THEN [n |-> 2, stk |-> Append(stk, [k |-> "interp", n |-> 1])]
         ELSE [n |-> 1, stk |-> stk]
    ELSE IF byte = SQ
    THEN [n |-> 1, stk |-> Append(stk, Open("sq"))]
    ELSE IF byte = DQ
    THEN [n |-> 1, stk |-> Append(stk, Open("dq"))]
    ELSE IF byte = BT
    THEN [n |-> 1, stk |-> Append(stk, Open("tpl"))]
    ELSE IF top = "code"
    THEN IF byte = SLASH /\ next = SLASH
         THEN [n |-> 2, stk |-> Append(stk, Open("lc"))]
         ELSE IF byte = SLASH /\ next = STAR
         THEN [n |-> 2, stk |-> Append(stk, Open("bc"))]
         ELSE [n |-> 1, stk |-> stk]
    ELSE IF byte = LBRACE
    THEN [n |-> 1, stk |-> LexBump(stk, 1)]
    ELSE IF byte = RBRACE
    THEN [n |-> 1, stk |-> IF stk[Len(stk)].n = 1 THEN Pop(stk) ELSE LexBump(stk, -1)]
    ELSE [n |-> 1, stk |-> stk]

RECURSIVE LexFrom(_, _, _, _)
\* the constructs open at offset p when lexing starts at offset i with stk
\* open; a byte taken as the second of a two-byte token belongs to the
\* construct that token opens, or else to the one it was read in
LexFrom(bytes, i, stk, p) ==
    IF i >= p \/ i >= Len(bytes)
    THEN stk
    ELSE LET r == LexStep(bytes, i, stk) IN
         IF i + r.n > p
         THEN IF Len(r.stk) > Len(stk) THEN r.stk ELSE stk
         ELSE LexFrom(bytes, i + r.n, r.stk, p)

\* the constructs open at offset p of a text lexed from offset from
LexAt(bytes, from, p) ==
    LexFrom(bytes, from, <<>>, p)

\* the kinds of the constructs open at offset p, outermost first
LexKinds(bytes, from, p) ==
    LET stk == LexAt(bytes, from, p) IN [j \in 1..Len(stk) |-> stk[j].k]

\* what the token read at offset i with stk open is, among the things the
\* scanners are known to treat in their own ways: a template literal opened
\* inside an interpolation ("nested"), a line comment opened ("lc"), a
\* backslash in the code of an interpolation ("escape")
LexIs(bytes, i, stk, what) ==
    \/ what = "nested" /\ LexTop(stk) = "interp" /\ bytes[i + 1] = BT
    \/ what = "lc" /\ LexTop(LexStep(bytes, i, stk).stk) = "lc" /\ LexTop(stk) # "lc"
    \/ what = "escape" /\ LexTop(stk) = "interp" /\ bytes[i + 1] = BSL

RECURSIVE LexHas(_, _, _, _, _)
\* some token read in bytes[i..p), lexing from offset i with stk open, is
\* one of whats
LexHas(bytes, i, stk, p, whats) ==
    IF i >= p \/ i >= Len(bytes)
    THEN FALSE
    ELSE LET r == LexStep(bytes, i, stk) IN
         \/ \E w \in whats : LexIs(bytes, i, stk, w)
         \/ LexHas(bytes, i + r.n, r.stk, p, whats)

\* a template literal is opened inside an interpolation somewhere in
\* bytes[from..p): the nesting spec 4.1 leaves out of scope
LexNested(bytes, from, p) ==
    LexHas(bytes, from, <<>>, p, {"nested"})

RECURSIVE LexMatch(_, _, _, _, _, _)
\* the offset of the closer that brings depth d to zero, counting open and
\* close in top-level code only, lexing from offset i with stk open; -1
\* when the text ends first
LexMatch(bytes, i, stk, d, open, close) ==
    IF i >= Len(bytes)
    THEN -1
    ELSE LET r == LexStep(bytes, i, stk)
             byte == bytes[i + 1]
             d2 == IF stk = <<>> /\ byte = open THEN d + 1
                   ELSE IF stk = <<>> /\ byte = close THEN d - 1
                   ELSE d
         IN
         IF d2 = 0 THEN i ELSE LexMatch(bytes, i + r.n, r.stk, d2, open, close)

\* the text between offset from, just after an opener, and its matching
\* closer
LexExtract(bytes, from, open, close) ==
    LET m == LexMatch(bytes, from, <<>>, 1, open, close) IN
    IF m < 0 THEN NoneStr ELSE Some(Slice(bytes, from, m))

----------------------------------------------------------------------------
(* Specification Spec: both scanners stepped over every short text.        *)

\* the longest text of Spec
MaxScanLen == 3

\* the largest start offset of Spec
MaxStart == 1

ScanAlphabet ==
    {SQ, DQ, BT, BSL, NL, SLASH, STAR, DOLLAR, LBRACE, RBRACE, LETTER}

\* inputs of the tests of scanner.rs (lines 211-284) and the nested
\* template of spec 8, letters abridged
ScanExamples ==
    { <<SQ, LETTER, LETTER, SQ>>,
      <<SLASH, STAR, LETTER, STAR, SLASH, LETTER>>,
      <<BT, DOLLAR, LBRACE, LETTER, RBRACE, BT>>,
      <<SLASH, SLASH, LETTER, NL, LETTER>>,
      <<SQ, BSL>>,
      <<BT, DOLLAR, LBRACE, LETTER, BT, DOLLAR, LBRACE, LETTER, RBRACE, BT, RBRACE, BT>>,
      <<BT, DOLLAR, LBRACE, BT, SQ, DQ, RBRACE, BT>> }

ScanTexts ==
    SeqsUpTo(ScanAlphabet, MaxScanLen) \cup ScanExamples

Min(a, b) ==
    IF a < b THEN a ELSE b

\* the components a specification does not step
Idle ==
    [pc |-> "idle"]

Init ==
    /\ main = Idle
    /\ calls = Idle
    /\ loop = Idle
    /\ text \in ScanTexts
    /\ start \in 0..Min(Len(text), MaxStart)
    /\ scanner = New(text, start)
    /\ pscanner = PrivateNew(text, start)
    /\ paren = Idle
    /\ brace = Idle
    /\ lines = Idle
    /\ logrule = Idle
    /\ testrule = Idle

\* scanner.advance() returning true
Advance ==
    /\ advance_returns(text, scanner)
    /\ scanner' = advance(text, scanner)
    /\ UNCHANGED <<loop, text, start, pscanner, paren, brace, lines, logrule, testrule, main, calls>>

\* the private scanner.advance() returning true
PAdvance ==
    /\ pscanner.pos < Len(text)
    /\ pscanner' = PrivateAdvance(text, pscanner)
    /\ UNCHANGED <<loop, text, start, scanner, paren, brace, lines, logrule, testrule, main, calls>>

\* both scanners make one call of advance() each
AdvanceBoth ==
    /\ advance_returns(text, scanner)
    /\ pscanner.pos < Len(text)
    /\ scanner' = advance(text, scanner)
    /\ pscanner' = PrivateAdvance(text, pscanner)
    /\ UNCHANGED <<loop, text, start, paren, brace, lines, logrule, testrule, main, calls>>

Next ==
    \/ Advance
    \/ PAdvance
    \/ AdvanceBoth

Spec ==
    Init /\ [][Next]_vars

----------------------------------------------------------------------------
(* Specification SpecShared: the shared scanner alone, on longer texts.    *)

\* the longest text of SpecShared over the full alphabet
MaxSharedLen == 4

\* the longest text of SpecShared over the template alphabet
MaxTemplateLen == 5

TemplateAlphabet ==
    {BT, DOLLAR, LBRACE, RBRACE, SQ, LETTER}

\* the longest interpolation of the texts that open one
MaxInterpLen == 3

\* braces, comment markers and what ends a comment
InterpAlphabet ==
    {LBRACE, RBRACE, SLASH, STAR, NL, LETTER}

\* a template literal whose interpolation has just been opened, and what
\* follows
InterpTexts ==
    {<<BT, DOLLAR, LBRACE>> \o t : t \in SeqsUpTo(InterpAlphabet, MaxInterpLen)}

SharedTexts ==
    SeqsUpTo(ScanAlphabet, MaxSharedLen)
        \cup SeqsUpTo(TemplateAlphabet, MaxTemplateLen)
        \cup InterpTexts
        \cup ScanExamples

InitShared ==
    /\ main = Idle
    /\ calls = Idle
    /\ loop = Idle
    /\ text \in SharedTexts
    /\ start \in 0..Min(Len(text), MaxStart)
    /\ scanner = New(text, start)
    /\ pscanner = Idle
    /\ paren = Idle
    /\ brace = Idle
    /\ lines = Idle
    /\ logrule = Idle
    /\ testrule = Idle

NextShared ==
    Advance

SpecShared ==
    InitShared /\ [][NextShared]_vars

----------------------------------------------------------------------------
(* Specification SpecExtract: one call of extract_paren_content or of      *)
(* extract_brace_content, stepped one loop iteration at a time.            *)

\* the longest text of SpecExtract over one of its alphabets
MaxExtractLen == 4

\* the longest text of SpecExtract over every byte
MaxMixedLen == 3

\* calls and string literals
ParenStringAlphabet ==
    {LPAREN, RPAREN, SQ, DQ, BT, BSL, LETTER}

\* calls and comments
ParenCommentAlphabet ==
    {LPAREN, RPAREN, SLASH, STAR, NL, LETTER}

\* calls and template literals
ParenTemplateAlphabet ==
    {LPAREN, RPAREN, BT, DOLLAR, LBRACE, RBRACE, SQ}

MixedAlphabet ==
    ScanAlphabet \cup {LPAREN, RPAREN}

\* the argument list of spec 8
ParenExample ==
    <<LPAREN, DQ, LPAREN, LETTER, RPAREN, DQ, COMMA, SPACE, LETTER, RPAREN>>

\* argument lists of the tests of sensitive_logging.rs lines 374-427,
\* letters abridged, and one with a line comment
ParenExamples ==
    { ParenExample,
      <<LPAREN, LETTER, LPAREN, LETTER, LPAREN, LETTER, RPAREN, RPAREN, COMMA, LETTER, RPAREN>>,
      <<LPAREN, BT, LETTER, DOLLAR, LBRACE, LETTER, LPAREN, LETTER, RPAREN, RBRACE, BT, RPAREN>>,
      <<LPAREN, SLASH, STAR, LETTER, RPAREN, STAR, SLASH, SQ, LETTER, SQ, RPAREN>>,
      <<LPAREN, LETTER, SLASH, SLASH, RPAREN, NL, COMMA, LETTER, RPAREN>> }

ParenTexts ==
    SeqsUpTo(ParenStringAlphabet, MaxExtractLen)
        \cup SeqsUpTo(ParenCommentAlphabet, MaxExtractLen)
        \cup SeqsUpTo(ParenTemplateAlphabet, MaxExtractLen)
        \cup SeqsUpTo(MixedAlphabet, MaxMixedLen)
        \cup ParenExamples

\* blocks and string literals
BraceStringAlphabet ==
    {LBRACE, RBRACE, SQ, DQ, BT, BSL, LETTER}

\* blocks and comments
BraceCommentAlphabet ==
    {LBRACE, RBRACE, SLASH, STAR, NL, LETTER}

\* blocks and template literals
BraceTemplateAlphabet ==
    {LBRACE, RBRACE, BT, DOLLAR, SQ, LETTER}

\* the test bodies of test_assertion.rs lines 302-405, letters abridged:
\* braces in strings, in comments, in a template with an interpolation, in
\* a string inside an interpolation, and a template nested in an
\* interpolation
BraceExamples ==
    { <<LBRACE, DQ, LBRACE, LETTER, RBRACE, DQ, LETTER, RBRACE>>,
      <<LBRACE, SLASH, SLASH, LBRACE, RBRACE, NL, SLASH, STAR, LBRACE, STAR, SLASH, RBRACE>>,
      <<LBRACE, LBRACE, LETTER, RBRACE, BT, LETTER, DOLLAR, LBRACE, LETTER, RBRACE, BT, RBRACE>>,
      <<LBRACE, BT, DOLLAR, LBRACE, DQ, LETTER, LBRACE, LETTER, RBRACE, DQ, RBRACE, BT, RBRACE>>,
      <<LBRACE, BT, DOLLAR, LBRACE, LBRACE, RBRACE, RBRACE, RBRACE, BT, RBRACE>>,
      <<LBRACE, BT, DOLLAR, LBRACE, BT, RBRACE, DOLLAR, LBRACE, LETTER, RBRACE, BT, RBRACE, BT, RBRACE>> }

BraceTexts ==
    SeqsUpTo(BraceStringAlphabet, MaxExtractLen)
        \cup SeqsUpTo(BraceCommentAlphabet, MaxExtractLen)
        \cup SeqsUpTo(BraceTemplateAlphabet, MaxExtractLen)
        \cup SeqsUpTo(MixedAlphabet, MaxMixedLen)
        \cup BraceExamples

InitExtract ==
    /\ main = Idle
    /\ calls = Idle
    /\ loop = Idle
    /\ scanner = Idle
    /\ lines = Idle
    /\ logrule = Idle
    /\ testrule = Idle
    /\ \/ /\ text \in ParenTexts
          /\ start \in 0..Min(Len(text), MaxStart)
          /\ pscanner = PrivateNew(text, start)
          /\ paren = [depth |-> 1, pc |-> "loop", result |-> NoneStr]
          /\ brace = Idle
       \/ /\ text \in BraceTexts
          /\ start \in 0..Min(Len(text), MaxStart)
          /\ pscanner = Idle
          /\ paren = Idle
          /\ brace = [b |-> BraceEntry(start), pc |-> "loop", result |-> NoneStr]

\* one iteration of the loop of extract_paren_content
ParenStep ==
    /\ paren.pc = "loop"
    /\ ParenLoopCond(text, pscanner, paren.depth)
    /\ pscanner' = PrivateAdvance(text, pscanner)
    /\ paren' = [paren EXCEPT !.depth = ParenDepthAfter(text, pscanner, paren.depth)]
    /\ UNCHANGED <<loop, text, start, scanner, brace, lines, logrule, testrule, main, calls>>

\* extract_paren_content leaves its loop and returns
ParenReturn ==
    /\ paren.pc = "loop"
    /\ ~ParenLoopCond(text, pscanner, paren.depth)
    /\ paren' = [paren EXCEPT !.pc = "done",
                              !.result = ParenResult(text, start, pscanner, paren.depth)]
    /\ UNCHANGED <<loop, text, start, scanner, pscanner, brace, lines, logrule, testrule, main, calls>>

\* one iteration of the loop of extract_brace_content
BraceStep ==
    /\ brace.pc = "loop"
    /\ BraceLoopCond(text, brace.b)
    /\ brace' = [brace EXCEPT !.b = BraceLoopBody(text, brace.b)]
    /\ UNCHANGED <<loop, text, start, scanner, pscanner, paren, lines, logrule, testrule, main, calls>>

\* extract_brace_content leaves its loop and returns
BraceReturn ==
    /\ brace.pc = "loop"
    /\ ~BraceLoopCond(text, brace.b)
    /\ brace' = [brace EXCEPT !.pc = "done",
                              !.result = BraceResult(text, start, brace.b)]
    /\ UNCHANGED <<loop, text, start, scanner, pscanner, paren, lines, logrule, testrule, main, calls>>

NextExtract ==
    \/ ParenStep
    \/ ParenReturn
    \/ BraceStep
    \/ BraceReturn

SpecExtract ==
    InitExtract /\ [][NextExtract]_vars

----------------------------------------------------------------------------
(* Specification SpecLines: the comment-line helpers and the flaky-test    *)
(* rule applied to every short text.                                       *)

\* the longest text of SpecLines
MaxLinesLen == 5

\* the literal the pattern of SpecLines matches
PATTERN == <<"m">>

LinesAlphabet ==
    {SLASH, STAR, SPACE, NL, LETTER, "m"}

\* the comment of the test of flaky_test.rs lines 140-149 and a block
\* comment over three lines, letters abridged
LinesExamples ==
    { <<NL, SPACE, SLASH, SLASH, SPACE, "m", NL, LETTER, NL>>,
      <<SLASH, STAR, NL, "m", NL, STAR, SLASH, NL>> }

LinesTexts ==
    SeqsUpTo(LinesAlphabet, MaxLinesLen) \cup LinesExamples

InitLines ==
    /\ main = Idle
    /\ calls = Idle
    /\ loop = Idle
    /\ text \in LinesTexts
    /\ start = 0
    /\ scanner = Idle
    /\ pscanner = Idle
    /\ paren = Idle
    /\ brace = Idle
    /\ logrule = Idle
    /\ testrule = Idle
    /\ lines = [pc |-> "find", found |-> NoneLine, count |-> 0, violations |-> <<>>]

\* a call of find_non_comment_match
FindNonCommentMatch ==
    /\ lines.pc = "find"
    /\ lines' = [lines EXCEPT !.pc = "count",
                              !.found = find_non_comment_match(text, PATTERN)]
    /\ UNCHANGED <<loop, text, start, scanner, pscanner, paren, brace, logrule, testrule, main, calls>>

\* a call of count_non_comment_matches
CountNonCommentMatches ==
    /\ lines.pc = "count"
    /\ lines' = [lines EXCEPT !.pc = "rule",
                              !.count = count_non_comment_matches(text, PATTERN)]
    /\ UNCHANGED <<loop, text, start, scanner, pscanner, paren, brace, logrule, testrule, main, calls>>

\* a run of the flaky-test rule
FlakyTestRule ==
    /\ lines.pc = "rule"
    /\ lines' = [lines EXCEPT !.pc = "done",
                              !.violations = flaky_test_rule(text, PATTERN)]
    /\ UNCHANGED <<loop, text, start, scanner, pscanner, paren, brace, logrule, testrule, main, calls>>

NextLines ==
    \/ FindNonCommentMatch
    \/ CountNonCommentMatches
    \/ FlakyTestRule

SpecLines ==
    InitLines /\ [][NextLines]_vars

----------------------------------------------------------------------------
(* Specification SpecRules: one run of the sensitive-logging rule or of    *)
(* the test-assertion rule, stepped one candidate match at a time, on      *)
(* texts put together from a few pieces.                                   *)

\* the largest number of pieces of a text of SpecRules
MaxPieces == 4

RECURSIVE PiecesUpTo(_, _)
\* the texts made of at most n of the pieces
PiecesUpTo(pieces, n) ==
    IF n = 0
    THEN {<<>>}
    ELSE LET shorter == PiecesUpTo(pieces, n - 1) IN
         shorter \cup {t \o q : t \in shorter, q \in pieces}

\* a logging call with a keyword, one without its closing parenthesis, a
\* logger call, comment markers, a newline, a quote, a letter
LogPieces ==
    { <<CONSOLE, LPAREN, KEYWORD, RPAREN>>,
      <<CONSOLE, LPAREN, KEYWORD>>,
      <<LOGGER, LPAREN, KEYWORD, RPAREN>>,
      <<SLASH, SLASH>>,
      <<SLASH, STAR>>,
      <<STAR, SLASH>>,
      <<NL>>,
      <<DQ>>,
      <<LETTER>> }

\* the texts of the tests of sensitive_logging.rs lines 368-372, 417-421
\* and 423-427, letters abridged, and a block comment over three lines
LogExamples ==
    { <<SLASH, SLASH, SPACE, CONSOLE, LPAREN, KEYWORD, RPAREN, NL,
        CONSOLE, LPAREN, LETTER, RPAREN>>,
      <<SLASH, STAR, SPACE, CONSOLE, LPAREN, KEYWORD, RPAREN, SPACE, STAR, SLASH, NL,
        CONSOLE, LPAREN, SQ, LETTER, SQ, RPAREN>>,
      <<CONSOLE, LPAREN, SLASH, STAR, SPACE, KEYWORD, SPACE, STAR, SLASH, SPACE,
        SQ, LETTER, SQ, RPAREN>>,
      <<SLASH, STAR, NL, CONSOLE, LPAREN, KEYWORD, RPAREN, NL, STAR, SLASH>> }

\* a logging call with a keyword, the two quotes that open a string, a
\* newline and a comment marker
StringPieces ==
    { <<CONSOLE, LPAREN, KEYWORD, RPAREN>>,
      <<SLASH, SLASH>>,
      <<NL>>,
      <<DQ>>,
      <<BT>> }

MaxStringPieces == 5

\* the text of the test of sensitive_logging.rs lines 410-415, letters
\* abridged
UrlExample ==
    <<CONSOLE, LPAREN, DQ, LETTER, SLASH, SLASH, LETTER, DQ, COMMA, SPACE,
      KEYWORD, RPAREN>>

LogTexts ==
    PiecesUpTo(LogPieces, MaxPieces)
        \cup PiecesUpTo(StringPieces, MaxStringPieces)
        \cup LogExamples
        \cup {UrlExample}

\* the start of a test, braces, an assertion, a statement, comment markers,
\* a newline, a quote
TestPieces ==
    { TestStart,
      <<LBRACE>>,
      <<RBRACE>>,
      <<ASSERTION>>,
      <<LETTER>>,
      <<SLASH, SLASH>>,
      <<SLASH, STAR>>,
      <<NL>>,
      <<DQ>> }

\* the texts of the tests of test_assertion.rs lines 222-232 and 256-263,
\* letters abridged
TestExamples ==
    { <<NL, SPACE>> \o TestStart \o <<NL, SPACE, LETTER, NL, SPACE, RBRACE, NL>>,
      <<NL, SPACE>> \o TestStart \o <<NL, SPACE, RBRACE, NL>> }

TestTexts ==
    PiecesUpTo(TestPieces, MaxPieces) \cup TestExamples

InitRules ==
    /\ main = Idle
    /\ calls = Idle
    /\ loop = Idle
    /\ start = 0
    /\ scanner = Idle
    /\ pscanner = Idle
    /\ paren = Idle
    /\ brace = Idle
    /\ lines = Idle
    /\ \/ /\ text \in LogTexts
          /\ logrule = [pc |-> "loop", i |-> 1, violations |-> <<>>, reported_lines |-> {}]
          /\ testrule = Idle
       \/ /\ text \in TestTexts
          /\ logrule = Idle
          /\ testrule = [pc |-> "loop", i |-> 1, violations |-> <<>>]

\* one call of check_match, from one of the two loops of the rule
CheckMatch ==
    /\ logrule.pc = "loop"
    /\ logrule.i <= Len(LogMatches(text))
    /\ logrule' = [check_match(text, LogMatches(text)[logrule.i], logrule)
                       EXCEPT !.i = logrule.i + 1]
    /\ UNCHANGED <<loop, text, start, scanner, pscanner, paren, brace, lines, testrule, main, calls>>

\* the checker of the sensitive-logging rule returns its violations
LogRuleReturn ==
    /\ logrule.pc = "loop"
    /\ logrule.i > Len(LogMatches(text))
    /\ logrule' = [logrule EXCEPT !.pc = "done"]
    /\ UNCHANGED <<loop, text, start, scanner, pscanner, paren, brace, lines, testrule, main, calls>>

\* one iteration of the loop of the test-assertion rule
TestCandidate ==
    /\ testrule.pc = "loop"
    /\ testrule.i <= Len(captures_iter(text, 0))
    /\ testrule' = [test_candidate(text, captures_iter(text, 0)[testrule.i], testrule)
                        EXCEPT !.i = testrule.i + 1]
    /\ UNCHANGED <<loop, text, start, scanner, pscanner, paren, brace, lines, logrule, main, calls>>

\* the checker of the test-assertion rule returns its violations
TestRuleReturn ==
    /\ testrule.pc = "loop"
    /\ testrule.i > Len(captures_iter(text, 0))
    /\ testrule' = [testrule EXCEPT !.pc = "done"]
    /\ UNCHANGED <<loop, text, start, scanner, pscanner, paren, brace, lines, logrule, main, calls>>

NextRules ==
    \/ CheckMatch
    \/ LogRuleReturn
    \/ TestCandidate
    \/ TestRuleReturn

SpecRules ==
    InitRules /\ [][NextRules]_vars

----------------------------------------------------------------------------
(* Specification SpecLoops: each scan loop run by itself, one iteration at *)
(* a time, with its iterations counted: repeated advance() of the shared   *)
(* scanner, extract_paren_content, extract_brace_content,                  *)
(* extract_code_portions and is_in_comment.                                *)

\* the longest text of SpecLoops
MaxLoopLen == 3

LoopTexts ==
    SeqsUpTo(MixedAlphabet, MaxLoopLen) \cup ScanExamples \cup ParenExamples

\* a loop about to start: target is the offset is_in_comment is asked about
LoopEntry(kind, target) ==
    [kind |-> kind, pc |-> "loop", steps |-> 0, returned |-> None, target |-> target]

InitLoops ==
    /\ main = Idle
    /\ calls = Idle
    /\ text \in LoopTexts
    /\ lines = Idle
    /\ logrule = Idle
    /\ testrule = Idle
    /\ \/ /\ start \in 0..Min(Len(text), MaxStart)
          /\ loop = LoopEntry("advance", 0)
          /\ scanner = New(text, start)
          /\ pscanner = Idle
          /\ paren = Idle
          /\ brace = Idle
       \/ /\ start \in 0..Min(Len(text), MaxStart)
          /\ loop = LoopEntry("paren", 0)
          /\ scanner = Idle
          /\ pscanner = PrivateNew(text, start)
          /\ paren = [depth |-> 1, pc |-> "loop", result |-> NoneStr]
          /\ brace = Idle
       \/ /\ start \in 0..Min(Len(text), MaxStart)
          /\ loop = LoopEntry("brace", 0)
          /\ scanner = Idle
          /\ pscanner = Idle
          /\ paren = Idle
          /\ brace = [b |-> BraceEntry(start), pc |-> "loop", result |-> NoneStr]
       \/ /\ start = 0
          /\ loop = LoopEntry("code", 0)
          /\ scanner = Idle
          /\ pscanner = PrivateNew(text, 0)
          /\ paren = Idle
          /\ brace = Idle
       \/ /\ \E target \in 0..Len(text) :
                /\ start = line_start(text, target)
                /\ loop = LoopEntry("comment", target)
          /\ scanner = Idle
          /\ pscanner = PrivateNew(text, start)
          /\ paren = Idle
          /\ brace = Idle

\* the condition under which the loop of loop.kind runs once more
LoopCond ==
    CASE loop.kind = "advance" -> advance_returns(text, scanner)
      [] loop.kind = "paren" -> ParenLoopCond(text, pscanner, paren.depth)
      [] loop.kind = "brace" -> BraceLoopCond(text, brace.b)
      [] loop.kind = "code" -> pscanner.pos < Len(text)
      [] loop.kind = "comment" -> pscanner.pos < loop.target /\ ~IsInCommentFound(text, pscanner)

\* a call of advance() that returns true, in a loop of calls
LoopAdvance ==
    /\ loop.kind = "advance" /\ loop.pc = "loop" /\ LoopCond
    /\ scanner' = advance(text, scanner)
    /\ loop' = [loop EXCEPT !.steps = @ + 1, !.returned = advance_returns(text, scanner)]
    /\ UNCHANGED <<text, start, pscanner, paren, brace, lines, logrule, testrule, main, calls>>

\* one iteration of the loop of extract_paren_content
LoopParen ==
    /\ loop.kind = "paren" /\ loop.pc = "loop" /\ LoopCond
    /\ pscanner' = PrivateAdvance(text, pscanner)
    /\ paren' = [paren EXCEPT !.depth = ParenDepthAfter(text, pscanner, paren.depth)]
    /\ loop' = [loop EXCEPT !.steps = @ + 1]
    /\ UNCHANGED <<text, start, scanner, brace, lines, logrule, testrule, main, calls>>

\* one iteration of the loop of extract_brace_content
LoopBrace ==
    /\ loop.kind = "brace" /\ loop.pc = "loop" /\ LoopCond
    /\ brace' = [brace EXCEPT !.b = BraceLoopBody(text, brace.b)]
    /\ loop' = [loop EXCEPT !.steps = @ + 1]
    /\ UNCHANGED <<text, start, scanner, pscanner, paren, lines, logrule, testrule, main, calls>>

\* one iteration of the loop of extract_code_portions
LoopCode ==
    /\ loop.kind = "code" /\ loop.pc = "loop" /\ LoopCond
    /\ pscanner' = CodePortionsScanner(text, pscanner)
    /\ loop' = [loop EXCEPT !.steps = @ + 1]
    /\ UNCHANGED <<text, start, scanner, paren, brace, lines, logrule, testrule, main, calls>>

\* one iteration of the loop of is_in_comment
LoopComment ==
    /\ loop.kind = "comment" /\ loop.pc = "loop" /\ LoopCond
    /\ pscanner' = PrivateAdvance(text, pscanner)
    /\ loop' = [loop EXCEPT !.steps = @ + 1]
    /\ UNCHANGED <<text, start, scanner, paren, brace, lines, logrule, testrule, main, calls>>

\* the loop ends; for the loop of calls, with the call of advance() that
\* returns false
LoopEnd ==
    /\ loop.pc = "loop" /\ ~LoopCond
    /\ loop' = [loop EXCEPT !.pc = "done",
                            !.returned = IF loop.kind = "advance"
                                         THEN advance_returns(text, scanner)
                                         ELSE @]
    /\ scanner' = IF loop.kind = "advance" THEN advance(text, scanner) ELSE scanner
    /\ UNCHANGED <<text, start, pscanner, paren, brace, lines, logrule, testrule, main, calls>>

NextLoops ==
    \/ LoopAdvance
    \/ LoopParen
    \/ LoopBrace
    \/ LoopCode
    \/ LoopComment
    \/ LoopEnd

SpecLoops ==
    InitLoops /\ [][NextLoops]_vars

----------------------------------------------------------------------------
(* Specification SpecNested: the shared scanner on template literals whose *)
(* interpolation holds a nested template literal with an interpolation of  *)
(* its own:  ` ${ pre ` body ${ inner } body ` post } `                   *)

\* the longest part put between the delimiters of a text of SpecNested
MaxPartLen == 1

\* the bytes of pre, inner and post: code without braces or quotes
NestedCodeAlphabet ==
    {LETTER, LPAREN, RPAREN}

\* the bytes of the two parts of the nested template's body
NestedBodyAlphabet ==
    {LETTER, LBRACE, RBRACE, SQ}

NestedTemplate(pre, body1, inner, body2, post) ==
    <<BT, DOLLAR, LBRACE>> \o pre
        \o <<BT>> \o body1 \o <<DOLLAR, LBRACE>> \o inner \o <<RBRACE>> \o body2 \o <<BT>>
        \o post \o <<RBRACE, BT>>

\* the nested template of spec 8: `${fn(`${x}`)}`, letters abridged
NestedExample ==
    NestedTemplate(<<LETTER, LPAREN>>, <<>>, <<LETTER>>, <<>>, <<RPAREN>>)

NestedTexts ==
    { NestedTemplate(pre, body1, inner, body2, post) :
          pre \in SeqsUpTo(NestedCodeAlphabet, MaxPartLen),
          body1 \in SeqsUpTo(NestedBodyAlphabet, MaxPartLen),
          inner \in SeqsUpTo(NestedCodeAlphabet, MaxPartLen),
          body2 \in SeqsUpTo(NestedBodyAlphabet, MaxPartLen),
          post \in SeqsUpTo(NestedCodeAlphabet, MaxPartLen) }
        \cup {NestedExample}

InitNested ==
    /\ main = Idle
    /\ calls = Idle
    /\ loop = Idle
    /\ text \in NestedTexts
    /\ start = 0
    /\ scanner = New(text, start)
    /\ pscanner = Idle
    /\ paren = Idle
    /\ brace = Idle
    /\ lines = Idle
    /\ logrule = Idle
    /\ testrule = Idle

NextNested ==
    Advance

SpecNested ==
    InitNested /\ [][NextNested]_vars

----------------------------------------------------------------------------
(* The line index of src/scanner.rs (build_line_offsets, offset_to_line)   *)
(* and specification SpecIndex, which builds the index of a text once and  *)
(* looks offsets up in it.  A text is a sequence of characters here; WIDE  *)
(* is a character of two bytes.                                            *)

WIDE == "wide"

\* char::len_utf8
len_utf8(c) ==
    IF c = WIDE THEN 2 ELSE 1

\* str::as_bytes: the bytes of the characters, one after the other
RECURSIVE as_bytes(_)
as_bytes(chars) ==
    IF chars = <<>>
    THEN <<>>
    ELSE (IF Head(chars) = WIDE THEN <<"xC3", "xA9">> ELSE <<Head(chars)>>)
             \o as_bytes(Tail(chars))

RECURSIVE char_indices_counts_chars(_, _)
\* char_indices that gives the index of each character among the characters
char_indices_counts_chars(chars, i) ==
    IF chars = <<>>
    THEN <<>>
    ELSE <<[i |-> i, c |-> Head(chars)]>>
             \o char_indices_counts_chars(Tail(chars), i + 1)

RECURSIVE char_indices(_, _)
\* str::char_indices from byte offset i on: each character with the offset
\* of its first byte
char_indices(chars, i) ==
    IF chars = <<>>
    THEN <<>>
    ELSE <<[i |-> i, c |-> Head(chars)]>>
             \o char_indices(Tail(chars), i + len_utf8(Head(chars)))

RECURSIVE filter_map_newline(_)
\* filter_map(|(i, c)| if c == '\n' { Some(i) } else { None }).collect()
filter_map_newline(pairs) ==
    IF pairs = <<>>
    THEN <<>>
    ELSE (IF Head(pairs).c = NL THEN <<Head(pairs).i>> ELSE <<>>)
             \o filter_map_newline(Tail(pairs))

\* build_line_offsets of scanner.rs, lines 191-196
scanner_build_line_offsets(content) ==
    filter_map_newline(char_indices(content, 0))

RECURSIVE binary_search(_, _, _, _)
\* <[usize]>::binary_search on the sorted v, between indices lo and hi: Ok
\* with the index of x, or Err with the index where x would be inserted
binary_search(v, x, lo, hi) ==
    IF lo >= hi
    THEN [kind |-> "Err", idx |-> lo]
    ELSE LET mid == lo + (hi - lo) \div 2 IN
         IF v[mid + 1] = x
         THEN [kind |-> "Ok", idx |-> mid]
         ELSE IF v[mid + 1] < x
         THEN binary_search(v, x, mid + 1, hi)
         ELSE binary_search(v, x, lo, mid)

\* offset_to_line of scanner.rs, lines 200-204
scanner_offset_to_line(offsets, offset) ==
    binary_search(offsets, offset, 0, Len(offsets)).idx + 1

\* the longest text of SpecIndex
MaxIndexLen == 4

IndexAlphabet ==
    {NL, LETTER, WIDE}

\* the text of the tests of scanner.rs lines 269-275, letters abridged
IndexExample ==
    <<LETTER, NL, LETTER, NL, LETTER>>

InitIndex ==
    /\ main = Idle
    /\ calls = Idle
    /\ loop = Idle
    /\ text \in SeqsUpTo(IndexAlphabet, MaxIndexLen) \cup {IndexExample}
    /\ start = 0
    /\ scanner = Idle
    /\ pscanner = Idle
    /\ paren = Idle
    /\ brace = Idle
    /\ logrule = Idle
    /\ testrule = Idle
    /\ lines = [pc |-> "build", offsets |-> <<>>, offset |-> 0, line |-> 0]

\* the index of the text is built
BuildLineOffsets ==
    /\ lines.pc = "build"
    /\ lines' = [lines EXCEPT !.pc = "lookup",
                              !.offsets = scanner_build_line_offsets(text)]
    /\ UNCHANGED <<loop, text, start, scanner, pscanner, paren, brace, logrule, testrule, main, calls>>

\* an offset of the text is looked up in the index
OffsetToLine ==
    /\ lines.pc = "lookup"
    /\ \E o \in 0..Len(as_bytes(text)) :
          lines' = [lines EXCEPT !.pc = "found",
                                 !.offset = o,
                                 !.line = scanner_offset_to_line(lines.offsets, o)]
    /\ UNCHANGED <<loop, text, start, scanner, pscanner, paren, brace, logrule, testrule, main, calls>>

NextIndex ==
    \/ BuildLineOffsets
    \/ OffsetToLine

SpecIndex ==
    InitIndex /\ [][NextIndex]_vars

----------------------------------------------------------------------------
(* Specification SpecCode: contains_sensitive_keyword on the argument list *)
(* of a logging call: extract_code_portions, then the keyword pattern.     *)

\* the longest argument list made of single bytes
MaxCodeLen == 4

\* the most pieces of an argument list made of pieces
MaxCodePieces == 4

CodeAlphabet ==
    {KEYWORD, LETTER, SQ, DQ, BT, DOLLAR, LBRACE, RBRACE, SLASH, STAR, NL}

\* a keyword, a letter, the delimiters of strings, interpolations and
\* comments, a newline
CodePieces ==
    { <<KEYWORD>>,
      <<LETTER>>,
      <<DQ>>,
      <<BT>>,
      <<DOLLAR, LBRACE>>,
      <<RBRACE>>,
      <<SLASH, STAR>>,
      <<STAR, SLASH>>,
      <<SLASH, SLASH>>,
      <<NL>> }

\* the argument lists of the tests of sensitive_logging.rs lines 356-366,
\* 402-408 and 423-427, letters abridged
CodeExamples ==
    { <<SQ, LETTER, SQ, COMMA, SPACE, SQ, KEYWORD, SQ>>,
      <<BT, LETTER, SPACE, DOLLAR, LBRACE, LETTER, LPAREN, KEYWORD, RPAREN, RBRACE, BT>>,
      <<SLASH, STAR, SPACE, KEYWORD, SPACE, STAR, SLASH, SPACE, SQ, LETTER, SQ>> }

CodeTexts ==
    SeqsUpTo(CodeAlphabet, MaxCodeLen)
        \cup PiecesUpTo(CodePieces, MaxCodePieces)
        \cup CodeExamples

InitCode ==
    /\ main = Idle
    /\ calls = Idle
    /\ loop = Idle
    /\ text \in CodeTexts
    /\ start = 0
    /\ scanner = Idle
    /\ pscanner = Idle
    /\ paren = Idle
    /\ brace = Idle
    /\ lines = Idle
    /\ testrule = Idle
    /\ logrule = [pc |-> "args", code |-> <<>>, sensitive |-> FALSE]

\* contains_sensitive_keyword, line 254: the code portions are extracted
ExtractCodePortions ==
    /\ logrule.pc = "args"
    /\ logrule' = [logrule EXCEPT !.pc = "code", !.code = extract_code_portions(text)]
    /\ UNCHANGED <<loop, text, start, scanner, pscanner, paren, brace, lines, testrule, main, calls>>

\* contains_sensitive_keyword, line 255: the keyword pattern is tried
KeywordIsMatch ==
    /\ logrule.pc = "code"
    /\ logrule' = [logrule EXCEPT !.pc = "done", !.sensitive = keyword_is_match(logrule.code)]
    /\ UNCHANGED <<loop, text, start, scanner, pscanner, paren, brace, lines, testrule, main, calls>>

NextCode ==
    \/ ExtractCodePortions
    \/ KeywordIsMatch

SpecCode ==
    InitCode /\ [][NextCode]_vars

----------------------------------------------------------------------------
(* main() of src/main.rs with load_rules of src/rules/mod.rs, and          *)
(* specification SpecMain.  A path is one of a few file names, a checker   *)
(* is known by the list of violations it returns for the content.          *)

\* the rules in the order load_rules pushes them, mod.rs lines 105-146
RuleNames ==
    <<"sensitive_file", "architecture", "naming", "transaction", "security",
      "crypto_weak", "generated_file", "test_location", "dom_access", "sync_io",
      "bundle_size", "test_assertion", "flaky_test", "sensitive_logging">>

Rules ==
    {RuleNames[k] : k \in DOMAIN RuleNames}

Paths ==
    {"a.py", "a.html", "a.ts", "a.tsx", "a.test.ts", "a.spec.jsx"}

\* the paths each file pattern matches: RE_ALL_FILES .*, RE_JS_FILE
\* \.(tsx?|jsx?)$, RE_HTML_FILE \.(jsx?|tsx?|html?)$, RE_REACT_FILE
\* \.(tsx|jsx)$, RE_TEST_FILE \.(test|spec)\.[jt]sx?$
PatternPaths(pattern) ==
    CASE pattern = "RE_ALL_FILES" -> Paths
      [] pattern = "RE_JS_FILE" -> {"a.ts", "a.tsx", "a.test.ts", "a.spec.jsx"}
      [] pattern = "RE_HTML_FILE" -> {"a.html", "a.ts", "a.tsx", "a.test.ts", "a.spec.jsx"}
      [] pattern = "RE_REACT_FILE" -> {"a.tsx", "a.spec.jsx"}
      [] pattern = "RE_TEST_FILE" -> {"a.test.ts", "a.spec.jsx"}

\* the file_pattern of each rule
file_pattern(rule) ==
    CASE rule \in {"sensitive_file", "generated_file", "test_location"} -> "RE_ALL_FILES"
      [] rule = "security" -> "RE_HTML_FILE"
      [] rule = "dom_access" -> "RE_REACT_FILE"
      [] rule \in {"test_assertion", "flaky_test"} -> "RE_TEST_FILE"
      [] OTHER -> "RE_JS_FILE"

\* rule.file_pattern.is_match(&file_path), main.rs line 120
file_pattern_is_match(rule, path) ==
    path \in PatternPaths(file_pattern(rule))

\* is_js_ts_file, main.rs lines 14-19
is_js_ts_file(path) ==
    path \in {"a.ts", "a.tsx", "a.test.ts", "a.spec.jsx"}

\* the severity of the violations of a rule; the first one of the rules
\* that have several
RuleSeverity(rule) ==
    CASE rule = "sensitive_file" -> "Critical"
      [] rule \in {"architecture", "security", "crypto_weak", "generated_file",
                   "sensitive_logging"} -> "High"
      [] rule = "flaky_test" -> "Low"
      [] OTHER -> "Medium"

\* load_rules that pushes the rules in the opposite order
load_rules_reversed(config) ==
    LET all == [k \in DOMAIN RuleNames |-> RuleNames[Len(RuleNames) + 1 - k]] IN
    SelectSeq(all, LAMBDA r : r \in config.rules)

\* load_rules, mod.rs lines 102-149
load_rules(config) ==
    SelectSeq(RuleNames, LAMBDA r : r \in config.rules)

\* Rule::check, mod.rs lines 97-99: the violations the checker of the rule
\* returns for the content, in the order it finds them
RuleCheck(rule, content) ==
    [k \in DOMAIN content[rule] |->
        [rule |-> rule, severity |-> RuleSeverity(rule), line |-> content[rule][k]]]

\* the violations that block when the configured list is left unread and
\* the default one is used
blocking_violations_by_default(violations, block_on) ==
    SelectSeq(violations, LAMBDA v : v.severity \in {"Critical", "High"})

\* the violations that block, main.rs lines 126-129
blocking_violations(violations, block_on) ==
    SelectSeq(violations, LAMBDA v : v.severity \in block_on)

\* the violations that only warn, main.rs lines 131-134
warning_violations(violations, block_on) ==
    SelectSeq(violations, LAMBDA v : v.severity \notin block_on)

Severities ==
    {"Critical", "High", "Medium", "Low"}

\* default_block_on, config.rs lines 79-81
default_block_on ==
    {"Critical", "High"}

\* the most rules a configuration of SpecMain switches off
MaxDisabled == 1

\* the most rules that find something in a content of SpecMain
MaxHits == 2

\* what a checker returns for a content: nothing, or two violations that it
\* finds in the order of line 2, line 1
RuleResults ==
    {<<>>, <<2, 1>>}

Contents ==
    {c \in [Rules -> RuleResults] : Cardinality({r \in Rules : c[r] # <<>>}) <= MaxHits}

\* RulesConfig: the rules switched on, biome among them
RulesConfigs ==
    {(Rules \cup {"biome"}) \ off :
        off \in {d \in SUBSET (Rules \cup {"biome"}) : Cardinality(d) <= MaxDisabled}}

\* what biome::check returns when biome is in PATH
BiomeResults ==
    {<<>>, <<[rule |-> "biome", severity |-> "Medium", line |-> 1]>>}

\* main() after Config::load and with its input on stdin
MainEntry(config, input, path, content, available, diagnostics) ==
    [pc |-> "start", config |-> config, input |-> input, path |-> path,
     content |-> content, biome_available |-> available, biome |-> diagnostics,
     rules |-> <<>>, r |-> 1, violations |-> <<>>,
     blocking |-> <<>>, warnings |-> <<>>, exit |-> None]

DefaultConfig ==
    [enabled |-> TRUE, rules |-> Rules \cup {"biome"}, block_on |-> default_block_on]

InitMain ==
    /\ calls = Idle
    /\ loop = Idle
    /\ text = <<>>
    /\ start = 0
    /\ scanner = Idle
    /\ pscanner = Idle
    /\ paren = Idle
    /\ brace = Idle
    /\ lines = Idle
    /\ logrule = Idle
    /\ testrule = Idle
    /\ \/ \E rs \in RulesConfigs, path \in Paths, content \in Contents,
            available \in BOOLEAN, diagnostics \in BiomeResults :
             main = MainEntry([DefaultConfig EXCEPT !.rules = rs], "ok", path, content,
                              available, diagnostics)
       \/ \E block_on \in SUBSET Severities, path \in Paths, content \in Contents :
             main = MainEntry([DefaultConfig EXCEPT !.block_on = block_on], "ok", path,
                              content, FALSE, <<>>)
       \/ \E enabled \in BOOLEAN, input \in {"ok", "too_large", "invalid", "unsupported"},
            content \in Contents :
             main = MainEntry([DefaultConfig EXCEPT !.enabled = enabled], input, "a.ts",
                              content, FALSE, <<>>)

MainUnchanged ==
    UNCHANGED <<text, start, scanner, pscanner, paren, brace, lines, logrule, testrule,
                loop, calls>>

\* main.rs lines 65-69: a configuration that is switched off
MainDisabled ==
    /\ main.pc = "start"
    /\ ~main.config.enabled
    /\ main' = [main EXCEPT !.pc = "exit", !.exit = 0]
    /\ MainUnchanged

\* main.rs lines 71-109: the input is read and parsed
MainInput ==
    /\ main.pc = "start"
    /\ main.config.enabled
    /\ main' = IF main.input \in {"too_large", "invalid"}
               THEN [main EXCEPT !.pc = "exit", !.exit = 1]
               ELSE IF main.input = "unsupported"
               THEN [main EXCEPT !.pc = "exit", !.exit = 0]
               ELSE [main EXCEPT !.pc = "biome"]
    /\ MainUnchanged

\* main.rs lines 111-119: the biome check, then load_rules
MainBiome ==
    /\ main.pc = "biome"
    /\ main' = [main EXCEPT
                   !.pc = "rules",
                   !.violations = IF /\ "biome" \in main.config.rules
                                     /\ is_js_ts_file(main.path)
                                     /\ main.biome_available
                                  THEN @ \o main.biome
                                  ELSE @,
                   !.rules = load_rules(main.config)]
    /\ MainUnchanged

\* main.rs lines 119-124: one iteration of the loop over the rules
MainRule ==
    /\ main.pc = "rules"
    /\ main.r <= Len(main.rules)
    /\ main' = [main EXCEPT
                   !.r = @ + 1,
                   !.violations = IF file_pattern_is_match(main.rules[main.r], main.path)
                                  THEN @ \o RuleCheck(main.rules[main.r], main.content)
                                  ELSE @]
    /\ MainUnchanged

\* main.rs lines 126-146: blocking violations and warnings, and the exit
MainReport ==
    /\ main.pc = "rules"
    /\ main.r > Len(main.rules)
    /\ LET blocking == blocking_violations(main.violations, main.config.block_on)
           warnings == warning_violations(main.violations, main.config.block_on)
       IN main' = [main EXCEPT !.pc = "exit",
                               !.blocking = blocking,
                               !.warnings = warnings,
                               !.exit = IF blocking # <<>> THEN 2 ELSE 0]
    /\ MainUnchanged

NextMain ==
    \/ MainDisabled
    \/ MainInput
    \/ MainBiome
    \/ MainRule
    \/ MainReport

SpecMain ==
    InitMain /\ [][NextMain]_vars

----------------------------------------------------------------------------
(* Specification SpecCalls: two invocations of the checker of the          *)
(* sensitive-logging rule (sensitive_logging.rs lines 275-321), one after  *)
(* the other or with their steps interleaved.  The locals of an invocation *)
(* are created by it; the statics are the Lazy patterns.                   *)

\* the most pieces of a content of SpecCalls
MaxCallPieces == 2

\* a console call and a logger call with a keyword, a console call without,
\* a newline
CallPieces ==
    { <<CONSOLE, LPAREN, KEYWORD, RPAREN>>,
      <<LOGGER, LPAREN, KEYWORD, RPAREN>>,
      <<CONSOLE, LPAREN, LETTER, RPAREN>>,
      <<NL>> }

CallTexts ==
    PiecesUpTo(CallPieces, MaxCallPieces)

CallIds ==
    {1, 2}

\* the other invocation
Other(id) ==
    3 - id

\* an invocation that has not been made yet
CallEntry(content) ==
    [pc |-> "idle", content |-> content, i |-> 1, violations |-> <<>>,
     reported_lines |-> {}, line_offsets |-> {}, returned |-> None,
     after |-> FALSE, overlapped |-> FALSE]

InitCalls ==
    /\ main = Idle
    /\ loop = Idle
    /\ text = <<>>
    /\ start = 0
    /\ scanner = Idle
    /\ pscanner = Idle
    /\ paren = Idle
    /\ brace = Idle
    /\ lines = Idle
    /\ logrule = Idle
    /\ testrule = Idle
    /\ \E c1, c2 \in CallTexts :
          calls = [statics |-> {}, run |-> [id \in CallIds |-> CallEntry(IF id = 1 THEN c1 ELSE c2)]]

CallsUnchanged ==
    UNCHANGED <<text, start, scanner, pscanner, paren, brace, lines, logrule, testrule,
                loop, main>>

\* the locals a step of an invocation works on, with the dedup set of both
\* invocations
CallLocalsSharedLines(id) ==
    [calls.run[id] EXCEPT
        !.reported_lines = calls.run[1].reported_lines \cup calls.run[2].reported_lines]

\* the locals a step of an invocation works on: those it made, lines 276-278
CallLocals(id) ==
    calls.run[id]

\* an invocation that starts with the dedup set the other one has
CallEnterKeepsLines(id) ==
    /\ calls.run[id].pc = "idle"
    /\ calls' = [calls EXCEPT
                    !.statics = @ \cup {"RE_CONSOLE_CALL"},
                    !.run[id] = [@ EXCEPT
                        !.pc = "loop",
                        !.violations = <<>>,
                        !.reported_lines = calls.run[Other(id)].reported_lines,
                        !.line_offsets = build_line_offsets(calls.run[id].content),
                        !.after = (calls.run[Other(id)].pc = "done")]]
    /\ CallsUnchanged

\* lines 276-278 and the start of the loop of line 303: the locals are made,
\* RE_CONSOLE_CALL is forced
CallEnter(id) ==
    /\ calls.run[id].pc = "idle"
    /\ calls' = [calls EXCEPT
                    !.statics = @ \cup {"RE_CONSOLE_CALL"},
                    !.run[id] = [@ EXCEPT
                        !.pc = "loop",
                        !.violations = <<>>,
                        !.reported_lines = {},
                        !.line_offsets = build_line_offsets(calls.run[id].content),
                        !.after = (calls.run[Other(id)].pc = "done")]]
    /\ CallsUnchanged

\* one call of check_match, lines 280-301, by one of the loops of lines
\* 303-319; the patterns it uses are forced
CallCheckMatch(id) ==
    LET st == CallLocals(id)
        ms == LogMatches(st.content)
    IN
    /\ st.pc = "loop"
    /\ st.i <= Len(ms)
    /\ calls' = [calls EXCEPT
                    !.statics = @ \cup {"RE_SENSITIVE_KEYWORD"}
                                  \cup (IF ms[st.i].msg = "logger"
                                        THEN {"RE_LOGGER_CALL"} ELSE {}),
                    !.run[id] = [check_match(st.content, ms[st.i], st) EXCEPT
                        !.i = st.i + 1,
                        !.overlapped = @ \/ calls.run[Other(id)].pc = "loop"]]
    /\ CallsUnchanged

\* line 321: the checker returns its violations
CallReturn(id) ==
    /\ calls.run[id].pc = "loop"
    /\ calls.run[id].i > Len(LogMatches(calls.run[id].content))
    /\ calls' = [calls EXCEPT
                    !.statics = @ \cup {"RE_LOGGER_CALL"},
                    !.run[id] = [@ EXCEPT !.pc = "done",
                                     !.returned = calls.run[id].violations]]
    /\ CallsUnchanged

NextCalls ==
    \E id \in CallIds :
        \/ CallEnter(id)
        \/ CallCheckMatch(id)
        \/ CallReturn(id)

SpecCalls ==
    InitCalls /\ [][NextCalls]_vars

----------------------------------------------------------------------------
(* Claims about the scanners' state and query                              *)

\* C1, as stated: the non-code query is true when the position lies inside
\* a quoted string, a comment or a template literal body, and it is false
\* in live code inside an interpolation (depth stack non-empty, no quote
\* flag set).
C1_QueryFalseInInterpolation ==
    /\ LexTop(LexAt(text, start, scanner.pos)) \in {"sq", "dq", "tpl", "lc", "bc"}
          /\ ~LexNested(text, start, scanner.pos)
          => in_non_code_context(scanner)
    /\ scanner.template_interp_depth # <<>>
          /\ ~scanner.in_single_quote /\ ~scanner.in_double_quote
          => ~in_non_code_context(scanner)
    /\ pscanner.template_interp_depth # <<>>
          /\ ~pscanner.in_single_quote /\ ~pscanner.in_double_quote
          => ~in_string_or_comment(pscanner)

\* C1, amended: the query is true whenever a flag is set and whenever the
\* depth stack is non-empty, live code inside an interpolation included.
\* Where no template literal is nested in an interpolation, the shared
\* scanner's query is true exactly when its position lies outside top-level
\* code (in a string, a comment, a template body or an interpolation); the
\* same holds of the private scanner where, besides, no line comment has
\* been opened, which that scanner does not track.
C1_QueryTrueOutsideTopLevelCode ==
    /\ scanner.template_interp_depth # <<>> => in_non_code_context(scanner)
    /\ pscanner.template_interp_depth # <<>> => in_string_or_comment(pscanner)
    /\ ~LexNested(text, start, scanner.pos)
          => (in_non_code_context(scanner) <=> LexAt(text, start, scanner.pos) # <<>>)
    /\ ~LexHas(text, start, <<>>, pscanner.pos, {"nested", "lc"})
          => (in_string_or_comment(pscanner) <=> LexAt(text, start, pscanner.pos) # <<>>)

\* C1, its case: both scanners are in live code inside an interpolation,
\* and both queries answer true
C1_Witness ==
    /\ scanner.template_interp_depth = <<1>>
    /\ ~scanner.in_single_quote /\ ~scanner.in_double_quote /\ ~scanner.in_template
    /\ in_non_code_context(scanner)
    /\ pscanner = [k \in DOMAIN pscanner |-> scanner[k]]
    /\ in_string_or_comment(pscanner)
    /\ LexKinds(text, start, scanner.pos) = <<"tpl", "interp">>

\* the flags of the shared scanner that are set
FlagsSet(s) ==
    {f \in {"in_single_quote", "in_double_quote", "in_template",
            "in_block_comment", "in_line_comment"} : s[f]}

\* C10: with an empty depth stack at most one of the five flags is set;
\* with a non-empty one, two flags are set together only if one of them is
\* in_template, and the two quote flags are never both set.
C10_OneContextAtATime ==
    /\ scanner.template_interp_depth = <<>> => Cardinality(FlagsSet(scanner)) <= 1
    /\ scanner.template_interp_depth # <<>>
          => Cardinality(FlagsSet(scanner) \ {"in_template"}) <= 1
    /\ ~(scanner.in_single_quote /\ scanner.in_double_quote)

\* C10, its case: inside an interpolation a pending in_template is set
\* together with a quote flag
C10_Witness ==
    /\ scanner.template_interp_depth # <<>>
    /\ scanner.in_template
    /\ scanner.in_single_quote

----------------------------------------------------------------------------
(* Claims about the steps of the shared scanner, under SpecShared          *)

\* C11: for every text and every start offset not beyond its length, the
\* shared scanner keeps pos <= length after every advance(), also when the
\* text ends with a backslash inside a string or template, or with a lone
\* slash, star or dollar.
C11_PosWithinText ==
    /\ start <= Len(text)
    /\ scanner.pos >= start
    /\ scanner.pos <= Len(text)

\* C11, its case: the scanner has read a backslash that is the last byte of
\* the text, inside a single-quoted string
C11_Witness ==
    /\ Len(text) >= 2
    /\ text[Len(text)] = BSL
    /\ scanner.pos = Len(text)
    /\ scanner.pos > start
    /\ scanner.in_single_quote
    /\ scanner.template_interp_depth = <<>>

\* the constructs open at the end of the text, lexed from start
OpenAtEnd ==
    LexAt(text, start, Len(text))

\* the counters of the interpolations open at the end of the text,
\* outermost first
CountersAtEnd ==
    LET at == {j \in DOMAIN OpenAtEnd : OpenAtEnd[j].k = "interp"}
        Nth(k) == CHOOSE j \in at : Cardinality({h \in at : h < j}) = k - 1
    IN [k \in 1..Cardinality(at) |-> OpenAtEnd[Nth(k)].n]

\* C12: advance() never panics: the interpolation branch always finds a
\* counter on the stack, and every counter is at least 1; when the text
\* ends inside an unterminated string, template, interpolation or comment,
\* the scanner stops with the flag of that construct, or the counters of
\* the open interpolations, still set (texts with a template literal opened
\* inside an interpolation, which spec 4.1 leaves out, set aside).
C12_OpenStateAtEnd ==
    /\ \A j \in DOMAIN scanner.template_interp_depth :
           scanner.template_interp_depth[j] >= 1
    /\ scanner.pos = Len(text) /\ ~LexNested(text, start, Len(text))
          => /\ scanner.in_single_quote <=> LexTop(OpenAtEnd) = "sq"
             /\ scanner.in_double_quote <=> LexTop(OpenAtEnd) = "dq"
             /\ scanner.in_template <=> LexTop(OpenAtEnd) = "tpl"
             /\ scanner.in_line_comment <=> LexTop(OpenAtEnd) = "lc"
             /\ scanner.in_block_comment <=> LexTop(OpenAtEnd) = "bc"
             /\ scanner.template_interp_depth = CountersAtEnd

\* C12, its case: the text has ended inside a single-quoted string that was
\* opened inside an interpolation with an open brace of its own
C12_Witness ==
    /\ scanner.pos = Len(text)
    /\ scanner.pos > start
    /\ scanner.template_interp_depth = <<2>>
    /\ scanner.in_single_quote
    /\ ~scanner.in_template

\* the byte at the scanner and the byte after it
ScannerByte ==
    Get(text, scanner.pos)

ScannerNext ==
    Get(text, scanner.pos + 1)

\* the scanner is in the code of an interpolation, outside quotes
InInterpolationCode ==
    /\ scanner.template_interp_depth # <<>>
    /\ ~scanner.in_single_quote
    /\ ~scanner.in_double_quote
    /\ ~scanner.in_block_comment
    /\ ~scanner.in_line_comment

\* the counter on top of the depth stack
TopCounter ==
    scanner.template_interp_depth[Len(scanner.template_interp_depth)]

\* one advance() of the life of an interpolation: "${" in a template body,
\* a brace in the interpolation, the '}' that ends it, the backtick that
\* closes the template
C14_Step ==
    /\ /\ scanner.in_template
       /\ scanner.template_interp_depth = <<>>
       /\ ScannerByte = DOLLAR
       /\ ScannerNext = LBRACE
       => scanner' = [scanner EXCEPT !.in_template = FALSE,
                                     !.template_interp_depth = <<1>>,
                                     !.pos = @ + 2]
    /\ InInterpolationCode /\ ScannerByte = LBRACE
       => scanner' = [scanner EXCEPT !.template_interp_depth = BumpTop(@, 1),
                                     !.pos = @ + 1]
    /\ InInterpolationCode /\ ScannerByte = RBRACE /\ TopCounter > 1
       => scanner' = [scanner EXCEPT !.template_interp_depth = BumpTop(@, -1),
                                     !.pos = @ + 1]
    /\ InInterpolationCode /\ ScannerByte = RBRACE /\ TopCounter = 1
       => scanner' = [scanner EXCEPT !.template_interp_depth = Pop(@),
                                     !.in_template = TRUE,
                                     !.pos = @ + 1]
    /\ /\ scanner.in_template
       /\ scanner.template_interp_depth = <<>>
       /\ ScannerByte = BT
       => scanner' = [scanner EXCEPT !.in_template = FALSE, !.pos = @ + 1]

\* C14: in a template literal with an empty depth stack, "${" clears
\* in_template, pushes a counter of 1 and advances 2 bytes; inside the
\* interpolation every '{' / '}' outside quotes increments / decrements the
\* top counter, and the '}' that brings it to 0 pops the counter and sets
\* in_template again, after which a backtick closes the template.
C14_InterpolationLifeCycle ==
    [][C14_Step]_vars

\* C14, its case: the template of the test of scanner.rs lines 238-253 has
\* been read to its end, through its interpolation
C14_Witness ==
    /\ text = <<BT, DOLLAR, LBRACE, LETTER, RBRACE, BT>>
    /\ start = 0
    /\ scanner.pos = Len(text)
    /\ scanner = New(text, Len(text))

\* the scanner is in the body of a top-level template literal
InTemplateBody ==
    scanner.in_template /\ scanner.template_interp_depth = <<>>

\* one advance() inside a string or a template body: a backslash takes the
\* byte after it along and changes no flag; otherwise only the matching
\* quote closes the string
C16_Step ==
    /\ /\ scanner.in_single_quote \/ scanner.in_double_quote \/ InTemplateBody
       /\ ScannerByte = BSL
       => scanner' = [scanner EXCEPT !.pos = IF @ + 1 < Len(text) THEN @ + 2 ELSE @ + 1]
    /\ scanner.in_single_quote /\ ScannerByte \notin {BSL, None}
       => scanner'.in_single_quote = (ScannerByte # SQ)
    /\ scanner.in_double_quote /\ ScannerByte \notin {BSL, None}
       => scanner'.in_double_quote = (ScannerByte # DQ)
    /\ InTemplateBody /\ ScannerByte \notin {BSL, None}
       => /\ scanner'.in_template
             = ~(ScannerByte = BT \/ (ScannerByte = DOLLAR /\ ScannerNext = LBRACE))
          /\ scanner'.template_interp_depth
             = IF ScannerByte = DOLLAR /\ ScannerNext = LBRACE THEN <<1>> ELSE <<>>

\* C16: inside a single-quoted string, a double-quoted string or a template
\* literal body a backslash makes advance() skip the following byte, so a
\* quote or backtick right after an unescaped backslash never closes the
\* string and "${" after a backslash never opens an interpolation; only the
\* first unescaped matching quote closes it.
C16_EscapeSkipsNextByte ==
    [][C16_Step]_vars

\* C16, its case: a quote that follows a backslash inside a single-quoted
\* string has been passed over and the string is still open
C16_Witness ==
    /\ start = 0
    /\ Len(text) >= 3
    /\ SubSeq(text, 1, 3) = <<SQ, BSL, SQ>>
    /\ scanner.pos = 3
    /\ scanner.in_single_quote

\* the two bytes at offset o of the text
Pair(o) ==
    <<Get(text, o), Get(text, o + 1)>>

\* one advance() around a line comment: "//" in code opens it and takes two
\* bytes; inside it every byte is taken alone, changes no other flag, and
\* only the newline ends it
C17_Step ==
    /\ ~in_non_code_context(scanner) /\ Pair(scanner.pos) = <<SLASH, SLASH>>
       => scanner' = [scanner EXCEPT !.in_line_comment = TRUE, !.pos = @ + 2]
    /\ scanner.in_line_comment /\ ScannerByte # None
       => scanner' = [scanner EXCEPT !.in_line_comment = (ScannerByte # NL),
                                     !.pos = @ + 1]

\* a line comment that is open was opened by a "//" with no newline between
\* it and pos, and no other flag is set
C17_Open ==
    scanner.in_line_comment
        => /\ \E o \in start..(scanner.pos - 2) :
                /\ Pair(o) = <<SLASH, SLASH>>
                /\ \A j \in (o + 2)..(scanner.pos - 1) : Get(text, j) # NL
           /\ scanner = [New(text, scanner.pos) EXCEPT !.in_line_comment = TRUE]

\* C17: from code state "//" sets in_line_comment and advances two bytes;
\* the flag stays true up to and including the next newline and is false
\* once the newline is consumed, with pos at the byte after it; no string or
\* block-comment flag changes while it is true.
C17_LineComment ==
    [][C17_Step]_vars /\ []C17_Open

\* C17, its case: a line comment with a quote in it has been read to the end
\* of its line and the scanner is back in code
C17_Witness ==
    /\ start = 0
    /\ text = <<SLASH, SLASH, SQ, NL>>
    /\ scanner = New(text, 4)

\* one advance() around a block comment: "/*" in code opens it and takes two
\* bytes; inside it "*/" ends it and takes two bytes, any other byte is
\* taken alone
C18_Step ==
    /\ ~in_non_code_context(scanner) /\ Pair(scanner.pos) = <<SLASH, STAR>>
       => scanner' = [scanner EXCEPT !.in_block_comment = TRUE, !.pos = @ + 2]
    /\ scanner.in_block_comment /\ ScannerByte # None
       => scanner' = IF Pair(scanner.pos) = <<STAR, SLASH>>
                     THEN [scanner EXCEPT !.in_block_comment = FALSE, !.pos = @ + 2]
                     ELSE [scanner EXCEPT !.pos = @ + 1]

\* a block comment that is open was opened by a "/*" and no "*/" starts
\* between the byte after that "/*" and pos
C18_Open ==
    scanner.in_block_comment
        => /\ \E o \in start..(scanner.pos - 2) :
                /\ Pair(o) = <<SLASH, STAR>>
                /\ \A j \in (o + 2)..(scanner.pos - 1) : Pair(j) # <<STAR, SLASH>>
           /\ scanner = [New(text, scanner.pos) EXCEPT !.in_block_comment = TRUE]

\* C18: "/*" sets in_block_comment and advances two bytes; the flag stays
\* true until the first "*/" that starts at or after the byte following the
\* "/*" (so "/*/" does not close it) and is false with pos just past it.
C18_BlockComment ==
    [][C18_Step]_vars /\ []C18_Open

\* C18, its case: after "/*/" the comment is still open
C18_Witness ==
    /\ start = 0
    /\ Len(text) >= 3
    /\ SubSeq(text, 1, 3) = <<SLASH, STAR, SLASH>>
    /\ scanner.pos = 3
    /\ scanner.in_block_comment

----------------------------------------------------------------------------
(* Claims about nested templates, under SpecNested                         *)

\* an advance() that empties the depth stack reads the '}' that closes the
\* outer interpolation
C15_Step ==
    scanner.template_interp_depth # <<>> /\ scanner'.template_interp_depth = <<>>
        => /\ ScannerByte = RBRACE
           /\ LexKinds(text, 0, scanner.pos) = <<"tpl", "interp">>
           /\ LexAt(text, 0, scanner.pos)[2].n = 1

\* at the end of the text, after the final backtick, the scanner is
\* outside every string and its depth stack is empty
C15_End ==
    scanner.pos = Len(text) => scanner = New(text, Len(text))

\* C15, as stated: for a template literal whose interpolation contains a
\* nested template with its own interpolation, scanned from the opening
\* backtick, the depth stack returns to empty exactly once, at the '}' that
\* closes the outer interpolation; no inner '}' empties it earlier, and the
\* scanner is outside every string after the final backtick.
C15_NestedTemplateClosesOnce ==
    [][C15_Step]_vars /\ []C15_End

----------------------------------------------------------------------------
(* Claims about termination, under SpecLoops                               *)

\* the offset the loop of loop.kind has reached
LoopPos ==
    CASE loop.kind = "advance" -> scanner.pos
      [] loop.kind = "brace" -> brace.b.pos
      [] OTHER -> pscanner.pos

\* a call of advance() with pos < length returns true and adds 1 or 2 to
\* pos; a call with pos >= length returns false and changes nothing; an
\* iteration of any of the loops moves its offset forward
C13_Step ==
    /\ /\ loop.pc = "loop"
       /\ loop.kind = "advance"
       /\ scanner.pos < Len(text)
       => /\ loop'.returned = TRUE
          /\ scanner'.pos - scanner.pos \in {1, 2}
    /\ /\ loop.pc = "loop"
       /\ loop.kind = "advance"
       /\ scanner.pos >= Len(text)
       => /\ loop'.returned = FALSE
          /\ scanner' = scanner
    /\ /\ loop.pc = "loop"
       /\ loop'.pc = "loop"
       => /\ loop'.steps = loop.steps + 1
          /\ LoopPos' > LoopPos

\* no loop has made more iterations than there are bytes after its start
C13_StepsWithinLength ==
    loop.steps + start <= Len(text)

\* C13: advance() returns true and increases pos by exactly 1 or 2 whenever
\* pos < length, and returns false leaving pos and every flag unchanged
\* whenever pos >= length; hence every scan loop (repeated advance,
\* extract_paren_content, extract_brace_content, extract_code_portions,
\* is_in_comment) ends after at most length iterations.
C13_LoopsTerminate ==
    [][C13_Step]_vars /\ []C13_StepsWithinLength

\* C13, its case: the loop of extract_code_portions has ended on a text
\* with a line comment, one iteration having passed over the whole comment
C13_Witness ==
    /\ loop.kind = "code"
    /\ loop.pc = "done"
    /\ Len(text) >= 3
    /\ loop.steps = Len(text) - 1
    /\ \E i \in 0..(Len(text) - 2) : CodePortionsLineComment(text, PrivateNew(text, i))

----------------------------------------------------------------------------
(* Claims about the two rules, under SpecRules                             *)

\* the candidate match check_match is about to be called on
LogCandidate ==
    LogMatches(text)[logrule.i]

\* the candidate match the test-assertion rule is about to look at
TestCandidateMatch ==
    captures_iter(text, 0)[testrule.i]

\* a call of check_match for a match that starts inside a line comment, or
\* inside a block comment that is closed further on, leaves the violations
\* as they were
C2_Step ==
    /\ logrule.pc = "loop"
    /\ logrule.i <= Len(LogMatches(text))
    /\ \/ LexTop(LexAt(text, 0, LogCandidate.start)) = "lc"
       \/ /\ LexTop(LexAt(text, 0, LogCandidate.start)) = "bc"
          /\ \E q \in LogCandidate.start..Len(text) : LexAt(text, 0, q) = <<>>
    => logrule'.violations = logrule.violations

\* C2, as stated: the sensitive-logging rule produces no finding for a
\* logging call whose match start lies inside a comment: after // on its
\* line, or anywhere between a /* and its closing */, wherever in the text
\* that block comment began.
C2_CommentedCallsIgnored ==
    [][C2_Step]_vars

\* an iteration for a candidate whose extraction fails changes nothing but
\* the place in the loop
C9_Step ==
    /\ /\ logrule.pc = "loop"
       /\ logrule.i <= Len(LogMatches(text))
       /\ extract_paren_content(text, LogCandidate.end) = NoneStr
       => logrule' = [logrule EXCEPT !.i = @ + 1]
    /\ /\ testrule.pc = "loop"
       /\ testrule.i <= Len(captures_iter(text, 0))
       /\ extract_brace_content(text, TestCandidateMatch.end) = NoneStr
       => testrule' = [testrule EXCEPT !.i = @ + 1]

\* no run ends in a panic; every violation returned is on the line of a
\* candidate whose extraction succeeded, and every candidate that is
\* reportable by itself has its line reported, whatever failed before it
C9_Returned ==
    /\ logrule.pc # "panic"
    /\ testrule.pc # "panic"
    /\ logrule.pc = "done"
          => LET ms == LogMatches(text)
                 LineOf(k) == offset_to_line(build_line_offsets(text), ms[k].start)
                 Extracted(k) == extract_paren_content(text, ms[k].end)
                 Reportable(k) == /\ ~is_in_comment(text, ms[k].start)
                                  /\ Extracted(k).kind = "Some"
                                  /\ contains_sensitive_keyword(Extracted(k).val)
             IN
             /\ logrule.i = Len(ms) + 1
             /\ \A k \in DOMAIN ms :
                    Reportable(k) => \E v \in DOMAIN logrule.violations :
                                         logrule.violations[v].line = LineOf(k)
             /\ \A v \in DOMAIN logrule.violations :
                    \E k \in DOMAIN ms :
                        Reportable(k) /\ logrule.violations[v].line = LineOf(k)
    /\ testrule.pc = "done"
          => LET ms == captures_iter(text, 0)
                 failed == {k \in DOMAIN ms : extract_brace_content(text, ms[k].end) = NoneStr}
             IN
             /\ testrule.i = Len(ms) + 1
             /\ Len(testrule.violations) <= Len(ms) - Cardinality(failed)
             /\ (\A k \in DOMAIN ms : k \in failed) => testrule.violations = <<>>

\* C9: when extraction fails for a candidate match (unterminated
\* parenthesis or brace), the rule emits no finding for that candidate,
\* raises no error, and still processes the remaining candidates.
C9_FailedExtractionSkipped ==
    [][C9_Step]_vars /\ []C9_Returned

\* C9, its case: the sensitive-logging rule has returned a finding for a
\* call that follows, on a later line, a call whose parenthesis never closes
C9_Witness ==
    /\ logrule.pc = "done"
    /\ Len(logrule.violations) = 1
    /\ \E j, k \in DOMAIN LogMatches(text) :
          /\ j < k
          /\ ~is_in_comment(text, LogMatches(text)[j].start)
          /\ extract_paren_content(text, LogMatches(text)[j].end) = NoneStr
          /\ extract_paren_content(text, LogMatches(text)[k].end).kind = "Some"
          /\ logrule.violations[1].line = 2
          /\ offset_to_line(build_line_offsets(text), LogMatches(text)[j].start) = 1

\* the offsets in bytes[from..to) where a comment marker begins
CommentMarkers(bytes, from, to) ==
    {o \in from..(to - 2) :
        Get(bytes, o) = SLASH /\ Get(bytes, o + 1) \in {SLASH, STAR}}

\* every comment marker that begins in bytes[from..to) is inside a string
\* literal, and there is one
MarkersInStrings(bytes, from, to) ==
    /\ CommentMarkers(bytes, from, to) # {}
    /\ \A o \in CommentMarkers(bytes, from, to) :
          LexTop(LexAt(bytes, 0, o)) \in {"sq", "dq", "tpl"}

\* no quoted string of the text runs over a newline
QuotedStringsOnOneLine(bytes) ==
    \A q \in NewlineOffsets(bytes) :
        LexTop(LexAt(bytes, 0, q)) \notin {"sq", "dq"}

\* a keyword of the text stands in code, outside every string and comment
KeywordInCode(bytes) ==
    \E i \in 0..(Len(bytes) - 1) :
        /\ Get(bytes, i) = KEYWORD
        /\ LexTop(LexAt(bytes, 0, i)) \in {"code", "interp"}
        /\ Get(bytes, i - 1) \notin WordBytes
        /\ Get(bytes, i + 1) \notin WordBytes

\* the arguments of the candidate call, as extract_paren_content gives them
LogArgs ==
    extract_paren_content(text, LogCandidate.end)

\* the candidate call is in code, and the comment markers before it on its
\* line are all inside string literals
C19_MarkersBeforeCall ==
    /\ logrule.pc = "loop"
    /\ logrule.i <= Len(LogMatches(text))
    /\ QuotedStringsOnOneLine(text)
    /\ LexTop(LexAt(text, 0, LogCandidate.start)) \in {"code", "interp"}
    /\ MarkersInStrings(text, line_start(text, LogCandidate.start), LogCandidate.start)

\* the comment markers in the arguments of the candidate call are all
\* inside string literals, and a keyword follows in code
C19_MarkersInArgs ==
    /\ logrule.pc = "loop"
    /\ logrule.i <= Len(LogMatches(text))
    /\ LogArgs.kind = "Some"
    /\ QuotedStringsOnOneLine(LogArgs.val)
    /\ MarkersInStrings(LogArgs.val, 0, Len(LogArgs.val))
    /\ KeywordInCode(LogArgs.val)

\* the line of the candidate call
LogCandidateLine ==
    offset_to_line(build_line_offsets(text), LogCandidate.start)

\* a call of check_match for a candidate with comment markers inside string
\* literals only, before it on its line or in its arguments, reports its
\* line when the other half of the test finds a keyword or no comment
C19_Step ==
    /\ /\ C19_MarkersBeforeCall
       /\ LogArgs.kind = "Some"
       /\ contains_sensitive_keyword(LogArgs.val)
       => LogCandidateLine \in logrule'.reported_lines
    /\ /\ C19_MarkersInArgs
       /\ ~is_in_comment(text, LogCandidate.start)
       => LogCandidateLine \in logrule'.reported_lines

\* C19: a "//" or "/*" inside a string literal is never treated as a comment
\* start: is_in_comment does not report a later match on that line as
\* commented, and extract_code_portions does not drop the code that follows
\* the string.
C19_MarkersInStringsIgnored ==
    [][C19_Step]_vars

\* the lines of the violations recorded so far
ViolationLines ==
    {logrule.violations[v].line : v \in DOMAIN logrule.violations}

\* the candidate is one check_match reports when it is alone on its line
LogReportable(k) ==
    LET m == LogMatches(text)[k]
        args == extract_paren_content(text, m.end)
    IN
    /\ ~is_in_comment(text, m.start)
    /\ args.kind = "Some"
    /\ contains_sensitive_keyword(args.val)

\* the line of candidate k
LogLineOf(k) ==
    offset_to_line(build_line_offsets(text), LogMatches(text)[k].start)

\* the violations carry pairwise different lines, and these are the lines of
\* the dedup set
C21_OnePerLine ==
    logrule.pc \in {"loop", "done"}
        => /\ \A j, k \in DOMAIN logrule.violations :
                  j # k => logrule.violations[j].line # logrule.violations[k].line
           /\ ViolationLines = logrule.reported_lines

\* a call of check_match keeps every violation recorded before it, and
\* records nothing for a candidate on a line that has one
C21_Step ==
    logrule.pc = "loop" /\ logrule.i <= Len(LogMatches(text))
        => /\ Len(logrule'.violations) >= Len(logrule.violations)
           /\ SubSeq(logrule'.violations, 1, Len(logrule.violations)) = logrule.violations
           /\ LogCandidateLine \in ViolationLines
                  => logrule'.violations = logrule.violations

\* C21: in one run of the sensitive-logging rule no two findings carry the
\* same line number: across the console-call and the logger-call passes only
\* the first finding recorded for a line is kept and every later candidate
\* on that line is dropped.
C21_OneFindingPerLine ==
    [][C21_Step]_vars /\ []C21_OnePerLine

\* C21, its case: the rule has returned one finding, the console one, for a
\* line with a reportable console call and a reportable logger call
C21_Witness ==
    /\ logrule.pc = "done"
    /\ Len(logrule.violations) = 1
    /\ logrule.violations[1].failure = "console"
    /\ \E j, k \in DOMAIN LogMatches(text) :
          /\ LogMatches(text)[j].msg = "console"
          /\ LogMatches(text)[k].msg = "logger"
          /\ LogReportable(j)
          /\ LogReportable(k)
          /\ LogLineOf(j) = LogLineOf(k)

\* the arguments of the candidate call as the reference lexer delimits them
LexArgs ==
    LexExtract(text, LogCandidate.end, LPAREN, RPAREN)

\* the text holds one logging call, in code, and a keyword stands in code
\* position in its argument list
C22_SingleSensitiveCall ==
    /\ logrule.pc = "loop"
    /\ logrule.i <= Len(LogMatches(text))
    /\ Len(LogMatches(text)) = 1
    /\ QuotedStringsOnOneLine(text)
    /\ LexTop(LexAt(text, 0, LogCandidate.start)) = "code"
    /\ LexArgs.kind = "Some"
    /\ KeywordInCode(LexArgs.val)

\* the finding expected for the candidate call
C22_Finding ==
    [rule |-> "sensitive-logging",
     severity |-> "High",
     failure |-> LogCandidate.msg,
     line |-> 1 + Cardinality({j \in NewlineOffsets(text) : j < LogCandidate.start})]

\* a call of check_match for the one call of such a text records its finding
C22_Step ==
    C22_SingleSensitiveCall => logrule'.violations = <<C22_Finding>>

\* C22: a single logging call outside any comment whose argument list
\* contains a sensitive keyword as an identifier in code position (at top
\* level, inside nested calls, or inside an interpolation of a template
\* argument) yields exactly one finding, with rule id sensitive-logging,
\* severity High and the line of the call's start.
C22_SensitiveCallReported ==
    [][C22_Step]_vars

----------------------------------------------------------------------------
(* Claims about the comment-line helpers, under SpecLines                  *)

\* the offsets at which the pattern occurs in the text
Occurrences ==
    {o \in 0..(Len(text) - Len(PATTERN)) : Slice(text, o, o + Len(PATTERN)) = PATTERN}

\* the helpers and the rule have run and found nothing
NothingFound ==
    /\ lines.found = NoneLine
    /\ lines.count = 0
    /\ lines.violations = <<>>

\* C3, as stated: a pattern whose only occurrences lie inside line comments
\* or block comments produces no finding and is not counted.
C3_CommentOccurrencesIgnored ==
    /\ lines.pc = "done"
    /\ \A o \in Occurrences : LexTop(LexAt(text, 0, o)) \in {"lc", "bc"}
    => NothingFound

\* the offset at which the line of offset o begins
LineStart(o) ==
    IF \E j \in NewlineOffsets(text) : j < o
    THEN 1 + CHOOSE j \in NewlineOffsets(text) :
                 j < o /\ \A h \in NewlineOffsets(text) : h < o => h <= j
    ELSE 0

\* the first offset at or after b that holds no space
SkipSpaces(b) ==
    CHOOSE e \in b..Len(text) :
        /\ \A i \in b..(e - 1) : text[i + 1] = SPACE
        /\ e < Len(text) => text[e + 1] # SPACE

\* the line of offset o begins, after its leading spaces, with a comment
\* marker: //, /*, a star and a space, or a star alone on the line
OnCommentLine(o) ==
    LET e == SkipSpaces(LineStart(o))
        a == Get(text, e)
        b == Get(text, e + 1)
    IN
    \/ a = SLASH /\ b \in {SLASH, STAR}
    \/ a = STAR /\ b \in {SPACE, NL, None}

\* C3: a pattern whose only occurrences lie on lines that begin, after
\* leading whitespace, with a comment marker produces no finding and is not
\* counted, however many occurrences there are; an occurrence on any other
\* line is found and counted, comment or not.
C3_CommentLinesIgnored ==
    lines.pc = "done"
        => /\ (\A o \in Occurrences : OnCommentLine(o)) <=> NothingFound
           /\ lines.count = Cardinality({LineStart(o) : o \in {p \in Occurrences : ~OnCommentLine(p)}})
           /\ lines.found.kind = "Some"
                 => \E o \in Occurrences :
                       /\ ~OnCommentLine(o)
                       /\ lines.found.val = 1 + Cardinality({j \in NewlineOffsets(text) : j < o})
                       /\ lines.violations = <<[rule |-> "flaky-test", line |-> lines.found]>>

\* C3, its case: the rule has run on a text with two occurrences of the
\* pattern, both on comment lines, one of them indented
C3_Witness ==
    /\ lines.pc = "done"
    /\ Cardinality(Occurrences) >= 2
    /\ \A o \in Occurrences : OnCommentLine(o)
    /\ \E o \in Occurrences : text[LineStart(o) + 1] = SPACE
    /\ NothingFound

----------------------------------------------------------------------------
(* Claims about the two extractors, under SpecExtract                      *)

\* the call of extract_paren_content has returned
ParenDone ==
    paren.pc = "done"

\* the call of extract_brace_content has returned
BraceDone ==
    brace.pc = "done"

\* C4: extract_paren_content returns the text from start up to the ')'
\* that matches the opening parenthesis, parentheses inside quoted strings
\* and template literals not counted and nested calls balanced (on texts
\* with no line comment in code and no template literal nested in an
\* interpolation, which C5 and spec 4.1 are about); for the argument list
\* of ("(a)", b) it returns "(a)", b.
C4_ParenContentUpToMatch ==
    ParenDone
        => /\ ~LexHas(text, start, <<>>, pscanner.pos, {"nested", "lc"})
                 => paren.result = LexExtract(text, start, LPAREN, RPAREN)
           /\ text = ParenExample /\ start = 1
                 => paren.result = Some(SubSeq(ParenExample, 2, 9))

\* C4, its case: the call on the argument list of ("(a)", b) has returned
\* a substring that holds the parentheses of the string literal
C4_Witness ==
    /\ ParenDone
    /\ text = ParenExample
    /\ start = 1
    /\ paren.result.kind = "Some"
    /\ Len(paren.result.val) = 8

\* C5, as stated: a parenthesis that lies inside a block comment or a line
\* comment never changes the nesting depth of extract_paren_content.
C5_CommentParensIgnored ==
    [][ /\ paren.pc = "loop"
        /\ paren'.pc = "loop"
        /\ LexTop(LexAt(text, start, pscanner.pos)) \in {"lc", "bc"}
        => paren'.depth = paren.depth ]_vars

\* a backslash has been read in the code of an interpolation, where no
\* source text has one: extract_brace_content skips the byte after it
BraceEscapeInCode ==
    LexHas(text, start, <<>>, brace.b.pos, {"escape"})

\* the body returned is the text up to the '}' of top-level code that
\* matches the brace of the searched block
C6_BodyEndsAtOwnBrace ==
    BraceDone /\ ~BraceEscapeInCode
        => /\ brace.result = LexExtract(text, start, LBRACE, RBRACE)
           /\ brace.result.kind = "Some"
                 => /\ LexAt(text, start, brace.b.pos - 1) = <<>>
                    /\ Get(text, brace.b.pos - 1) = RBRACE

\* reading a byte that lies inside an interpolation leaves the searched
\* depth as it was
C6_Step ==
    /\ brace.pc = "loop"
    /\ brace'.pc = "loop"
    /\ ~BraceEscapeInCode
    /\ \E j \in DOMAIN LexAt(text, start, brace.b.pos) :
           LexAt(text, start, brace.b.pos)[j].k = "interp"
    => brace'.b.depth = brace.b.depth

\* C6: in extract_brace_content a brace inside an interpolation is counted
\* on the interpolation's own counter and never changes the searched depth,
\* and the body returned ends at the '}' that closes the searched block.
C6_InterpolationBracesApart ==
    [][C6_Step]_vars /\ []C6_BodyEndsAtOwnBrace

\* C6, its case: a body has been returned whose interpolation holds a
\* balanced pair of braces and the '}' that closes the interpolation
C6_Witness ==
    /\ BraceDone
    /\ brace.result.kind = "Some"
    /\ \E i \in 0..(Len(text) - 1) :
          /\ i + 2 < brace.b.pos
          /\ Get(text, i) = RBRACE
          /\ Get(text, i + 1) = RBRACE
          /\ LexKinds(text, start, i) = <<"tpl", "interp">>
          /\ LexKinds(text, start, i + 1) = <<"tpl", "interp">>
          /\ LexKinds(text, start, i + 2) = <<"tpl">>

\* reading a byte that lies inside a string, a template body or a comment
\* leaves the searched depth as it was
C7_Step ==
    /\ brace.pc = "loop"
    /\ brace'.pc = "loop"
    /\ ~BraceEscapeInCode
    /\ LexTop(LexAt(text, start, brace.b.pos)) \in {"sq", "dq", "tpl", "lc", "bc"}
    => brace'.b.depth = brace.b.depth

\* C7: in extract_brace_content a brace inside a single-quoted string, a
\* double-quoted string, a template literal body, a line comment or a block
\* comment never changes the searched depth.
C7_StringAndCommentBracesIgnored ==
    [][C7_Step]_vars

\* C7, its case: a call has returned a body after reading a brace in a
\* block comment and a brace in a line comment
C7_Witness ==
    /\ BraceDone
    /\ brace.result.kind = "Some"
    /\ \E i \in start..(brace.b.pos - 2) :
          /\ Get(text, i) \in {LBRACE, RBRACE}
          /\ LexKinds(text, start, i) = <<"bc">>
    /\ \E i \in start..(brace.b.pos - 2) :
          /\ Get(text, i) \in {LBRACE, RBRACE}
          /\ LexKinds(text, start, i) = <<"lc">>

\* C8: each extractor returns None exactly when its input ended before the
\* searched depth came back to zero; otherwise it returns the text between
\* start and the closer read last; it never returns text for a depth still
\* open, and no slice or index leaves the text.
C8_NoneIffUnterminated ==
    /\ ParenDone
          => /\ paren.result.kind # "Panic"
             /\ paren.result.kind = "None" <=> paren.depth > 0
             /\ paren.depth > 0 => pscanner.pos >= Len(text)
             /\ paren.result.kind = "Some"
                   => /\ start < pscanner.pos /\ pscanner.pos <= Len(text)
                      /\ Get(text, pscanner.pos - 1) = RPAREN
                      /\ paren.result.val = Slice(text, start, pscanner.pos - 1)
    /\ BraceDone
          => /\ brace.result.kind # "Panic"
             /\ brace.result.kind = "None" <=> brace.b.depth > 0
             /\ brace.b.depth > 0 => brace.b.pos >= Len(text)
             /\ brace.result.kind = "Some"
                   => /\ start < brace.b.pos /\ brace.b.pos <= Len(text)
                      /\ Get(text, brace.b.pos - 1) = RBRACE
                      /\ brace.result.val = Slice(text, start, brace.b.pos - 1)
    /\ brace.pc = "loop" => brace.b.pos <= Len(text)

\* C8, its cases: a call on an unterminated text has returned None with
\* the private scanner moved past the end by a trailing backslash
C8_Witness ==
    /\ ParenDone
    /\ paren.result = NoneStr
    /\ pscanner.pos > Len(text)
    /\ pscanner.in_double_quote

----------------------------------------------------------------------------
(* Claims about the line index, under SpecIndex                            *)

\* the offsets of the newline bytes of the text
NewlineBytes ==
    {j \in 0..(Len(as_bytes(text)) - 1) : as_bytes(text)[j + 1] = NL}

\* the index that has been built is the strictly increasing list of exactly
\* the offsets of the newline bytes
C20_Index ==
    lines.pc \in {"lookup", "found"}
        => /\ \A j, k \in 1..Len(lines.offsets) : j < k => lines.offsets[j] < lines.offsets[k]
           /\ {lines.offsets[j] : j \in 1..Len(lines.offsets)} = NewlineBytes

\* the line found for an offset is one more than the number of newline bytes
\* before it
C20_Line ==
    lines.pc = "found"
        => lines.line = 1 + Cardinality({j \in NewlineBytes : j < lines.offset})

\* C20: for every text and every offset o with 0 <= o <= length(text),
\* offset_to_line(build_line_offsets(text), o) is 1 + the number of newline
\* characters at offsets strictly less than o, where build_line_offsets(text)
\* is the strictly increasing list of exactly the newline byte offsets (an
\* offset on a newline byte belongs to the line that newline ends).
C20_LineIndex ==
    C20_Index /\ C20_Line

\* C20, its case: the offset of the second newline of a text with a
\* two-byte character before it has been looked up and is on line 2
C20_Witness ==
    /\ text = <<NL, WIDE, NL>>
    /\ lines.pc = "found"
    /\ lines.offset = 3
    /\ lines.line = 2

----------------------------------------------------------------------------
(* Claims about the code portions of an argument list, under SpecCode      *)

\* the bytes that are no delimiter of a string, comment or interpolation
Plain ==
    {KEYWORD, LETTER, COMMA, SPACE, LPAREN, RPAREN}

RECURSIVE PlainOf(_)
\* the plain bytes of a sequence, in order
PlainOf(bytes) ==
    IF bytes = <<>>
    THEN <<>>
    ELSE (IF Head(bytes) \in Plain THEN <<Head(bytes)>> ELSE <<>>) \o PlainOf(Tail(bytes))

RECURSIVE LexPlainCode(_, _)
\* the plain bytes of the text from offset i on that stand in code or in the
\* code of an interpolation, in order
LexPlainCode(bytes, i) ==
    IF i >= Len(bytes)
    THEN <<>>
    ELSE (IF bytes[i + 1] \in Plain /\ LexTop(LexAt(bytes, 0, i)) \in {"code", "interp"}
          THEN <<bytes[i + 1]>>
          ELSE <<>>) \o LexPlainCode(bytes, i + 1)

\* the code portions hold the plain bytes of code and of interpolation code
\* and none of a string body or comment
C23_Code ==
    logrule.pc \in {"code", "done"} /\ ~LexNested(text, 0, Len(text))
        => PlainOf(logrule.code) = LexPlainCode(text, 0)

\* the argument list is found sensitive exactly when a keyword stands in
\* code position
C23_Sensitive ==
    logrule.pc = "done" /\ ~LexNested(text, 0, Len(text))
        => logrule.sensitive = KeywordInCode(text)

\* C23: a logging call in whose argument list every sensitive keyword occurs
\* only inside string literal bodies (single-quoted, double-quoted, template
\* text outside an interpolation) or inside comments yields no finding:
\* extract_code_portions removes exactly the bytes inside strings and
\* comments and keeps interpolation code.
C23_KeywordsInStringsIgnored ==
    C23_Code /\ C23_Sensitive

\* C23, its case: the argument list of the first test of allows_safe_logging,
\* a keyword in a quoted string, was found not sensitive, and the comma and
\* space between its two strings were kept
C23_Witness ==
    /\ text = <<SQ, LETTER, SQ, COMMA, SPACE, SQ, KEYWORD, SQ>>
    /\ logrule.pc = "done"
    /\ ~logrule.sensitive
    /\ PlainOf(logrule.code) = <<COMMA, SPACE>>

----------------------------------------------------------------------------
(* Claims about main() and the rules it runs, under SpecMain               *)

RECURSIVE RulesFindings(_)
\* the findings of the rules from the k-th in registration order on, those
\* of a rule switched off or of a rule whose pattern does not match left out
RulesFindings(k) ==
    IF k > Len(RuleNames)
    THEN <<>>
    ELSE (IF /\ RuleNames[k] \in main.config.rules
             /\ file_pattern_is_match(RuleNames[k], main.path)
          THEN RuleCheck(RuleNames[k], main.content)
          ELSE <<>>) \o RulesFindings(k + 1)

\* the diagnostics of biome that main() puts first
BiomeFindings ==
    IF /\ "biome" \in main.config.rules
       /\ is_js_ts_file(main.path)
       /\ main.biome_available
    THEN main.biome
    ELSE <<>>

\* main() has run all the rules
MainRan ==
    main.pc = "exit" /\ main.config.enabled /\ main.input = "ok"

\* C24, as stated: the finding list for a (path, text) is the concatenation,
\* in rule-registration order, of the findings of exactly those enabled
\* rules whose file pattern matches the path, each rule's findings in its
\* own discovery order.
C24_RulesOnly ==
    MainRan => main.violations = RulesFindings(1)

\* C24, amended: the finding list is the diagnostics of biome, when biome is
\* switched on and in PATH and the path is a JS or TS file, followed by the
\* concatenation, in rule-registration order, of the findings of exactly the
\* enabled rules whose file pattern matches the path, each rule's findings
\* in its own discovery order; it is never re-sorted by severity or line.
C24_BiomeThenRules ==
    MainRan => main.violations = BiomeFindings \o RulesFindings(1)

\* C24, its case: two rules found violations, the later in registration
\* order is not the less severe, each found line 2 before line 1, and a rule
\* between them did not match the path
C24_Witness ==
    /\ MainRan
    /\ main.path = "a.ts"
    /\ Len(main.violations) = 4
    /\ main.violations[1].rule = "transaction"
    /\ main.violations[3].rule = "sensitive_logging"
    /\ main.violations[1].line = 2
    /\ main.violations[2].line = 1
    /\ "dom_access" \in main.config.rules

\* the place of a severity in the order Critical > High > Medium > Low
SeverityRank(sv) ==
    CASE sv = "Critical" -> 4
      [] sv = "High" -> 3
      [] sv = "Medium" -> 2
      [] sv = "Low" -> 1

\* the severity blocks: a violation of it was put among the blocking ones
Blocks(sv) ==
    \E k \in DOMAIN main.blocking : main.blocking[k].severity = sv

\* C27: Severity is an ordered enumeration with Critical > High > Medium >
\* Low, a total order, and this order is what decides blocking: if a
\* severity blocks, every higher severity blocks too.
C27_HigherSeverityBlocks ==
    MainRan
        => \A k, j \in DOMAIN main.violations :
               /\ Blocks(main.violations[k].severity)
               /\ SeverityRank(main.violations[j].severity)
                      > SeverityRank(main.violations[k].severity)
               => Blocks(main.violations[j].severity)

\* the block body of the candidate of this iteration, as the lexical
\* structure gives it: None when the block is not closed
C28_Body ==
    LexExtract(text, TestCandidateMatch.end, LBRACE, RBRACE)

\* the candidate of this iteration is a test to report
C28_Reportable ==
    /\ C28_Body.kind = "Some"
    /\ ~assertion_is_match(C28_Body.val)
    /\ trim(C28_Body.val) # <<>>
    /\ ~starts_with(trim(C28_Body.val), <<SLASH, SLASH>>)

\* an iteration of the loop adds one Medium finding that names the test
\* when the candidate is to be reported, and nothing otherwise
C28_Step ==
    /\ testrule.pc = "loop"
    /\ testrule.i <= Len(captures_iter(text, 0))
    => IF C28_Reportable
       THEN /\ Len(testrule'.violations) = Len(testrule.violations) + 1
            /\ SubSeq(testrule'.violations, 1, Len(testrule.violations)) = testrule.violations
            /\ LET v == testrule'.violations[Len(testrule'.violations)] IN
               /\ v.rule = "test-assertion"
               /\ v.severity = "Medium"
               /\ v.failure = TestCandidateMatch.name
       ELSE testrule'.violations = testrule.violations

\* C28: for each it(...) / test(...) arrow-function block start matched in
\* a test file, the test-assertion rule emits exactly one Medium finding
\* naming the test iff the block body contains no assertion pattern and,
\* after trimming, is neither empty nor begins with //; a body with an
\* assertion, an empty body, or an unterminated block yields no finding.
C28_OneFindingPerBareTest ==
    [][C28_Step]_vars

\* a finished run over a text with two matched tests, of which exactly one
\* was reported
C28_Witness ==
    /\ testrule.pc = "done"
    /\ Len(captures_iter(text, 0)) = 2
    /\ Len(testrule.violations) = 1

\* line k of the text of SpecLines without its leading blanks
C29_Trimmed(k) ==
    LET line == Lines(text)[k]
        blanks == {n \in 0..Len(line) : \A i \in 1..n : line[i] = SPACE}
        lead == CHOOSE n \in blanks : \A m \in blanks : m <= n
    IN SubSeq(line, lead + 1, Len(line))

\* the lines of the text of SpecLines that match the pattern and do not
\* begin with a comment marker
C29_MatchingLines ==
    {k \in DOMAIN Lines(text) :
        /\ is_match(PATTERN, Lines(text)[k])
        /\ ~starts_with(C29_Trimmed(k), <<SLASH, SLASH>>)
        /\ ~starts_with(C29_Trimmed(k), <<SLASH, STAR>>)
        /\ ~starts_with(C29_Trimmed(k), <<STAR, SPACE>>)
        /\ C29_Trimmed(k) # <<STAR>>}

\* C29: find_non_comment_match(text, pattern) returns the smallest 1-based
\* line number of a line that matches the pattern and does not begin, after
\* leading whitespace is trimmed, with //, /* or "* " and is not a lone *;
\* it returns None when no such line exists, and count_non_comment_matches
\* counts exactly those lines (lines, not occurrences).
C29_FirstLineAndLineCount ==
    /\ lines.pc \in {"count", "rule", "done"}
           => IF C29_MatchingLines = {}
              THEN lines.found = NoneLine
              ELSE /\ lines.found.kind = "Some"
                   /\ lines.found.val \in C29_MatchingLines
                   /\ \A k \in C29_MatchingLines : lines.found.val <= k
    /\ lines.pc \in {"rule", "done"}
           => lines.count = Cardinality(C29_MatchingLines)

\* both helpers have run on a text with a commented line that matches
\* followed by a line that matches
C29_Witness ==
    /\ lines.pc = "done"
    /\ text = <<SLASH, SLASH, "m", NL, "m">>
    /\ lines.found = SomeLine(2)
    /\ lines.count = 1

\* the sum of the counters of the interpolation depth stack
C30_Braces(s) ==
    LET RECURSIVE Sum(_)
        Sum(q) == IF q = <<>> THEN 0 ELSE Head(q) + Sum(Tail(q))
    IN Sum(s.template_interp_depth)

\* a step of the shared scanner made with the depth stack non-empty leaves
\* both comment flags as they were, and takes one off the counters when the
\* byte read is a '}' outside quotes, whatever came before it
C30_Step ==
    /\ scanner.template_interp_depth # <<>>
    /\ advance_returns(text, scanner)
    => /\ scanner'.in_line_comment = scanner.in_line_comment
       /\ scanner'.in_block_comment = scanner.in_block_comment
       /\ /\ text[scanner.pos + 1] = RBRACE
          /\ ~scanner.in_single_quote
          /\ ~scanner.in_double_quote
          => C30_Braces(scanner') = C30_Braces(scanner) - 1

\* C30: while the interpolation depth stack is non-empty, // and /* leave
\* in_line_comment and in_block_comment unchanged (comments are not entered
\* inside an interpolation), so a '}' that follows // inside an
\* interpolation still decrements the interpolation counter.
C30_NoCommentsInInterpolation ==
    /\ [][C30_Step]_vars
    /\ [](scanner.template_interp_depth # <<>>
              => ~scanner.in_line_comment /\ ~scanner.in_block_comment)

\* the scanner has read the '}' after // in the interpolation of a template
\* literal and is back in the template body
C30_Witness ==
    /\ text = <<BT, DOLLAR, LBRACE, SLASH, SLASH, RBRACE>>
    /\ start = 0
    /\ scanner.pos = 6
    /\ scanner.template_interp_depth = <<>>
    /\ scanner.in_template
    /\ ~scanner.in_line_comment

----------------------------------------------------------------------------
(* Claims about invocations of a checker, under SpecCalls                  *)

RECURSIVE CheckAlone(_, _, _)
\* the locals of an invocation that runs check_match on the matches from the
\* k-th on, by itself
CheckAlone(content, k, st) ==
    IF k > Len(LogMatches(content))
    THEN st
    ELSE CheckAlone(content, k + 1, check_match(content, LogMatches(content)[k], st))

\* the violations an invocation returns when it runs by itself
ReturnedAlone(content) ==
    CheckAlone(content, 1, CallEntry(content)).violations

\* both invocations have returned
BothReturned ==
    \A id \in CallIds : calls.run[id].pc = "done"

\* C25: for any (text, path), invoking the rule's check twice yields
\* identical finding lists, the same findings in the same order; a check
\* invocation leaves behind no scanner, dedup or line-index state that a
\* later invocation can observe.
C25_SameTwice ==
    /\ BothReturned /\ calls.run[1].content = calls.run[2].content
          => calls.run[1].returned = calls.run[2].returned
    /\ \A id \in CallIds :
          calls.run[id].pc = "done" /\ calls.run[id].after
              => calls.run[id].returned = ReturnedAlone(calls.run[id].content)

\* C25, its case: the second invocation, made after the first returned on
\* the same text, returned the one finding of a line with two calls
C25_Witness ==
    /\ BothReturned
    /\ calls.run[2].after
    /\ calls.run[1].content = calls.run[2].content
    /\ Len(LogMatches(calls.run[2].content)) = 2
    /\ Len(calls.run[2].returned) = 1
    /\ calls.run[1].returned = calls.run[2].returned

\* a step forces statics and never resets one; a step of an invocation
\* leaves the locals of the other as they are
C26_Step ==
    /\ calls.statics \subseteq calls'.statics
    /\ \A id \in CallIds :
          calls'.run[id] # calls.run[id] => calls'.run[Other(id)] = calls.run[Other(id)]

\* an invocation that has returned, however its steps were interleaved with
\* the other's, returned what it returns alone
C26_Returned ==
    \A id \in CallIds :
        calls.run[id].pc = "done"
            => calls.run[id].returned = ReturnedAlone(calls.run[id].content)

\* C26: when two analyses of different (path, text) pairs run concurrently
\* with any interleaving of their steps, each returns exactly the findings
\* it returns when run alone: scanner state, line index and dedup set are
\* owned by one check invocation, and the rule and pattern tables are only
\* read after their one-time initialisation.
C26_ConcurrentAsAlone ==
    [][C26_Step]_vars /\ []C26_Returned

\* C26, its case: two invocations on different texts, each with steps taken
\* while the other was in its loop, have returned findings for the same line
C26_Witness ==
    /\ BothReturned
    /\ calls.run[1].content # calls.run[2].content
    /\ calls.run[1].overlapped
    /\ calls.run[2].overlapped
    /\ calls.run[1].returned # <<>>
    /\ calls.run[2].returned # <<>>
    /\ calls.run[1].returned[1].line = calls.run[2].returned[1].line

----------------------------------------------------------------------------
(* Claims about the private scanner against the shared one, under Spec.    *)

\* a step leaves the private scanner at an offset of its input, its length
\* included
C31_Step ==
    pscanner'.pos <= Len(text)

\* C31: the private StringScanner used by the sensitive-logging rule never
\* moves pos beyond the length of its input: a backslash that is the last
\* byte of the input, inside a string, a template or a quoted string within
\* an interpolation, advances pos to exactly the length.
C31_PrivatePosWithinText ==
    [][C31_Step]_vars

\* the two scanners are at the same offset with the same flags and the same
\* depth stack
C32_Agree(s, ps) ==
    /\ s.pos = ps.pos
    /\ s.in_single_quote = ps.in_single_quote
    /\ s.in_double_quote = ps.in_double_quote
    /\ s.in_template = ps.in_template
    /\ s.in_block_comment = ps.in_block_comment
    /\ s.template_interp_depth = ps.template_interp_depth

\* no // occurs in code position anywhere in the text from start on
C32_NoLineComment ==
    ~LexHas(text, start, <<>>, Len(text), {"lc"})

\* a step that both scanners make from agreeing states leaves them agreeing
C32_Step ==
    /\ C32_NoLineComment
    /\ C32_Agree(scanner, pscanner)
    /\ scanner'.pos # scanner.pos
    /\ pscanner'.pos # pscanner.pos
    => C32_Agree(scanner', pscanner')

\* C32: on every input in which no // occurs in code position, the shared
\* StringScanner and the private StringScanner of sensitive_logging.rs,
\* started at the same offset and stepped in lockstep with advance(), have
\* the same pos, the same in_single_quote, in_double_quote, in_template and
\* in_block_comment flags and the same interpolation depth stack after
\* every step.
C32_ScannersInLockstep ==
    [][C32_Step]_vars

----------------------------------------------------------------------------
(* Further claims about the rules, under SpecRules                         *)

\* a call of check_match that returns at the comment check of lines 284-286
\* is one for a match that starts inside a comment
C33_Step ==
    /\ logrule.pc = "loop"
    /\ logrule.i <= Len(LogMatches(text))
    /\ logrule'.i = logrule.i + 1
    /\ is_in_comment(text, LogCandidate.start)
    => LexTop(LexAt(text, 0, LogCandidate.start)) \in {"lc", "bc"}

\* C33: is_in_comment(text, pos) returns true only if pos lies inside a
\* comment: a logging call that starts in live code, for instance after a
\* block comment that was opened and closed earlier on the same line, is
\* not suppressed by the comment check.
C33_OnlyCommentsSuppress ==
    [][C33_Step]_vars

\* an iteration of the test-assertion rule that adds a finding gives it the
\* number of the line on which the match starts
C34_Step ==
    /\ testrule.pc = "loop"
    /\ testrule.i <= Len(captures_iter(text, 0))
    /\ Len(testrule'.violations) = Len(testrule.violations) + 1
    => testrule'.violations[Len(testrule'.violations)].line
           = 1 + Cardinality({j \in NewlineOffsets(text) : j < TestCandidateMatch.start})

\* C34: the line number of every test-assertion finding is the 1-based
\* number of the line on which the matched it( / test( starts, that is 1 +
\* the number of newline characters before the match start, whether the
\* match starts at column 0 or after leading text on its line.
C34_FindingOnLineOfTest ==
    [][C34_Step]_vars

----------------------------------------------------------------------------
(* Further claims about one run of main(), under SpecMain                  *)

\* some collected finding has a severity of the list
C35_SomeFindingIn(severities) ==
    \E k \in DOMAIN main.violations : main.violations[k].severity \in severities

\* C35: once a supported tool input with non-empty path and content has
\* been parsed, the process ends with exit code 2 iff at least one collected
\* finding has a severity contained in config.severity.block_on, and with
\* exit code 0 otherwise; under the default configuration the blocking
\* severities are exactly Critical and High.
C35_ExitCodeByBlockOn ==
    /\ MainRan
           => main.exit = IF C35_SomeFindingIn(main.config.block_on) THEN 2 ELSE 0
    /\ MainRan /\ main.config.block_on = default_block_on
           => (main.exit = 2 <=> C35_SomeFindingIn({"Critical", "High"}))

\* a run under a configuration that blocks on Medium alone, ended with exit
\* code 2 and a High finding among the warnings
C35_Witness ==
    /\ MainRan
    /\ main.config.block_on = {"Medium"}
    /\ main.exit = 2
    /\ \E k \in DOMAIN main.warnings : main.warnings[k].severity = "High"

----------------------------------------------------------------------------
(* Further claims about the shared scanner, under SpecShared               *)

\* every counter of the depth stack is at least 1
C36_Positive ==
    \A j \in DOMAIN scanner.template_interp_depth : scanner.template_interp_depth[j] >= 1

\* a step taken with the stack empty leaves it empty, unless it reads "${"
\* in a template body and pushes a 1; a '}' leaves it empty
C36_Step ==
    /\ scanner.template_interp_depth = <<>>
           => scanner'.template_interp_depth \in {<<>>, <<1>>}
    /\ scanner.template_interp_depth = <<>> /\ ScannerByte = RBRACE
           => scanner'.template_interp_depth = <<>>

\* C36: in every reachable scanner state, every counter stored in the
\* interpolation depth stack is >= 1: a counter is removed at the moment it
\* reaches 0, and a '}' read when the stack is empty never creates or
\* decrements a counter.
C36_CountersAtLeastOne ==
    /\ [][C36_Step]_vars
    /\ []C36_Positive

\* the '}' that ends an interpolation has taken its counter off the stack,
\* and a second '}' has been read with the stack empty
C36_Witness ==
    /\ text = <<BT, DOLLAR, LBRACE, RBRACE, RBRACE>>
    /\ start = 0
    /\ scanner.pos = 5
    /\ scanner.template_interp_depth = <<>>
    /\ scanner.in_template

\* C37: in the shared StringScanner, the interpolation depth stack never
\* holds more than one counter in any reachable state: a "${" read while an
\* interpolation is already open is counted as a brace on the existing
\* counter and is never pushed as a new one.
C37_OneCounterAtMost ==
    /\ [][scanner.template_interp_depth # <<>>
              => Len(scanner'.template_interp_depth) <= 1]_vars
    /\ [](Len(scanner.template_interp_depth) <= 1)

\* the "${" of a template opened inside an interpolation has been read: its
\* brace is on the one counter
C37_Witness ==
    /\ text = <<BT, DOLLAR, LBRACE, LETTER, BT, DOLLAR, LBRACE, LETTER, RBRACE, BT, RBRACE, BT>>
    /\ start = 0
    /\ scanner.pos = 7
    /\ scanner.template_interp_depth = <<2>>

====
